---------------------------- MODULE Spec2Model ----------------------------
(***************************************************************************)
(* Paper-trading simulator for binary UP/DOWN prediction markets:          *)
(* simulator.py (Trade, Portfolio) and db.py (SQLite persistence).         *)
(*                                                                         *)
(* Money, share counts and prices are decimal numbers with at most four    *)
(* decimals in the program (every stored value passes through round(x, 4)  *)
(* or round(x, 2)); they are represented here as integers counting units   *)
(* of 1/10000, so 100.0 is 1000000, 0.40 is 4000 and 0.0101 is 101.        *)
(* An Optional[...] value is a sequence of length 0 (None) or 1.           *)
(***************************************************************************)
EXTENDS Integers, Sequences, FiniteSets, TLC

VARIABLES
    initial_capital,   \* Portfolio.initial_capital
    capital,           \* Portfolio.capital
    trade_pct,         \* Portfolio.trade_pct
    active_trade,      \* Portfolio.active_trade   (Optional[Trade])
    closed_trades,     \* Portfolio.closed_trades  (list of Trade)
    pnl_history,       \* Portfolio.pnl_history    (list of float)
    trade_counter,     \* Portfolio._trade_counter
    signal_streak,     \* Portfolio._signal_streak {"label", "count"}
    db_trades,         \* table trades: id -> row
    db_state,          \* table portfolio_state: Optional row with id = 1
    db_now,            \* the database clock, read by datetime('now')
    db_calls,          \* the calls made on the persistence module, in order
    pc,                \* where the thread inside a call stands: "idle"
                       \* between two calls, or the line it is to execute
                       \* next inside consider_entry, close_trade (and
                       \* Trade.close), cancel_active_trade, load_state or
                       \* restore
    frame,             \* the locals of the call in progress (Optional):
                       \* those of consider_entry, or what load_state has
                       \* read and who called it, or restore's argument
    entered,           \* history: the Portfolio and the tables as the call
                       \* in progress found them (Optional: None between
                       \* two calls)
    issued_ids,        \* history: the ids given to Trades by this Portfolio
    ret,               \* the last call on the Portfolio and what it returned
    rpc,               \* where the reader's thread stands: "idle" outside
                       \* a call, or the line it is to execute next inside
                       \* stats, get_unrealized, current_price_for_trade or
                       \* Trade.to_dict
    rframe,            \* the locals of the reader's call in progress
                       \* (Optional)
    reads,             \* history: the calls the reader has made
    overlap            \* history: the calls the driving loop has begun
                       \* since the reader's call in progress began

vars == <<initial_capital, capital, trade_pct, active_trade, closed_trades,
          pnl_history, trade_counter, signal_streak, db_trades, db_state,
          db_now, db_calls, pc, frame, entered, issued_ids, ret, rpc,
          rframe, reads, overlap>>

\* the reader's thread
reader == <<rpc, rframe, reads, overlap>>

-----------------------------------------------------------------------------
(* Program constants *)

Scale == 10000
INITIAL_CAPITAL == 1000000
TRADE_PCT == 200
MIN_CONFIDENCE == 65
ENTRY_AFTER_N == 4
MIN_CAPITAL == 10000
MIN_ENTRY_PRICE == 100
WIN_THRESHOLD == 5000
WIN_EXIT_PRICE == 10000
LOSS_EXIT_PRICE == 0

(* Bounds of the model *)

MaxTrades == 2
MaxStreak == 4
MaxDbCalls == 4
MaxRestarts == 1
MaxReads == 1
MaxOverlap == 1

(* Inputs *)

Labels == {"UP", "DOWN", "STRONG UP", "STRONG DOWN", "NEUTRAL"}
Confidences == {64, 65, 70, 99}
\* <<up_price, down_price>> offered to consider_entry and to close_trade
EntryQuotes == {<<4000, 100>>, <<100, 4000>>, <<101, 100>>}
CloseQuotes == {<<5000, 4000>>, <<4000, 5000>>, <<5000, 5000>>, <<4000, 4000>>}
Markets == {"SOL-5m"}
Clock == {"12:00:00"}
Signals == [label : Labels, confidence : Confidences]
ForceWinner == {<<>>, <<TRUE>>, <<FALSE>>}
InitialCapitals == {INITIAL_CAPITAL, INITIAL_CAPITAL \div 200}

\* arguments of save_portfolio_state:
\* <<capital, initial_capital, pnl_history, trade_counter>>
Snapshots == {<<1050000, 1000000, <<0, 50000>>, 1>>,
              <<980000, 1000000, <<0, 50000, 0 - 20000>>, 2>>}

\* the values datetime('now') takes while the persistence module is
\* exercised on its own; a run of the Portfolio is taken within one of them,
\* as it is within one value of Clock
DbClock == {0, 1}

None == <<>>
NoLabel == "None"
Last(list) == list[Len(list)]
EmptyStreak == [label |-> NoLabel, count |-> 0]

\* a call that raises: what the caller gets is the exception
Raised(exception) == [raised |-> exception]

-----------------------------------------------------------------------------
(* Arithmetic *)

\* Python's float is the IEEE-754 double.  A double is held here as
\* [s, m, e]: value s * m * 2^e, s the sign (1 or -1), m the 53-bit
\* significand, a natural number written as its sequence of digits in base
\* 2^15, least significant first (<<>> is 0); zero is FloatZero.
Base == 32768

Limb(a, i) == IF 1 <= i /\ i <= Len(a) THEN a[i] ELSE 0

\* a without its leading zero digits
BigNorm(a) ==
    IF a = <<>> THEN <<>>
    ELSE LET nz == {i \in 1..Len(a) : a[i] # 0}
         IN  IF nz = {} THEN <<>>
             ELSE SubSeq(a, 1, CHOOSE i \in nz : \A j \in nz : j <= i)

\* an int 0 <= n < 2^31 as a natural number, and back
BigOf(n) == BigNorm(<<n % Base, (n \div Base) % Base, n \div (Base * Base)>>)
BigToInt(a) == Limb(a, 1) + Base * Limb(a, 2) + Base * Base * Limb(a, 3)

\* -1, 0 or 1 as a < b, a = b, a > b
BigCmp(a, b) ==
    IF Len(a) # Len(b) THEN (IF Len(a) < Len(b) THEN 0 - 1 ELSE 1)
    ELSE LET diff == {i \in 1..Len(a) : a[i] # b[i]}
         IN  IF diff = {} THEN 0
             ELSE LET top == CHOOSE i \in diff : \A j \in diff : j <= i
                  IN  IF a[top] < b[top] THEN 0 - 1 ELSE 1

\* the digits of the number whose digit i is worth cols[i] (below 2^30),
\* from digit i on, carry coming in from the digits below
RECURSIVE Carried(_, _, _)
Carried(cols, i, carry) ==
    IF i > Len(cols) THEN (IF carry = 0 THEN <<>> ELSE <<carry>>)
    ELSE <<(cols[i] + carry) % Base>>
         \o Carried(cols, i + 1, (cols[i] + carry) \div Base)

BigAdd(a, b) ==
    IF a = <<>> THEN b
    ELSE IF b = <<>> THEN a
    ELSE Carried([i \in 1..(IF Len(a) > Len(b) THEN Len(a) ELSE Len(b)) |->
                     Limb(a, i) + Limb(b, i)], 1, 0)

\* a - b for a >= b: a plus the complement of b plus 1, less the leading 1
BigSub(a, b) ==
    IF b = <<>> THEN a
    ELSE BigNorm(SubSeq(Carried([i \in 1..Len(a) |->
                                    a[i] + (Base - 1 - Limb(b, i))], 1, 1),
                        1, Len(a)))

\* a * k for 0 <= k < 2^15
BigMulSmall(a, k) ==
    IF k = 0 \/ a = <<>> THEN <<>>
    ELSE Carried([i \in 1..Len(a) |-> a[i] * k], 1, 0)

\* a * 2^n for 0 <= n < 15: no digit receives a carry
ShlBits(a, n) ==
    BigNorm([i \in 1..(Len(a) + 1) |->
                ((Limb(a, i) * 2 ^ n) % Base)
                  + ((Limb(a, i - 1) * 2 ^ n) \div Base)])

\* a * 2^n; a itself for n <= 0
BigShl(a, n) ==
    IF a = <<>> \/ n <= 0 THEN a
    ELSE [i \in 1..(n \div 15) |-> 0] \o ShlBits(a, n % 15)

\* a \div 2^n for n >= 0
BigShr(a, n) ==
    IF (n \div 15) >= Len(a) THEN <<>>
    ELSE BigNorm([i \in 1..(Len(a) - (n \div 15)) |->
                    (a[i + (n \div 15)] \div (2 ^ (n % 15)))
                      + ((Limb(a, i + (n \div 15) + 1) % (2 ^ (n % 15)))
                           * (2 ^ (15 - (n % 15))))])

\* what the products a[j] * b[k] contribute to digit i of a * b, from a[j]
\* on: the low halves of those with j + k = i + 1, the high halves of those
\* with j + k = i
RECURSIVE Column(_, _, _, _)
Column(a, b, i, j) ==
    IF j > Len(a) THEN 0
    ELSE ((a[j] * Limb(b, i + 1 - j)) % Base)
           + ((a[j] * Limb(b, i - j)) \div Base)
           + Column(a, b, i, j + 1)

BigMul(a, b) ==
    IF a = <<>> \/ b = <<>> THEN <<>>
    ELSE BigNorm(Carried([i \in 1..(Len(a) + Len(b)) |-> Column(a, b, i, 1)],
                         1, 0))

\* the number of binary digits of 0 <= n < 2^15, and of a
SmallBitLen(n) == CHOOSE k \in 0..15 : n < 2 ^ k /\ (k = 0 \/ 2 ^ (k - 1) <= n)
BitLen(a) ==
    IF a = <<>> THEN 0 ELSE 15 * (Len(a) - 1) + SmallBitLen(a[Len(a)])

BigOdd(a) == a # <<>> /\ a[1] % 2 = 1

\* binary digit p of a, the lowest being digit 1
BitAt(a, p) ==
    (Limb(a, ((p - 1) \div 15) + 1) \div (2 ^ ((p - 1) % 15))) % 2

\* the binary digits of a below digit p are all 0
ZeroBelow(a, p) ==
    /\ \A i \in 1..((p - 1) \div 15) : Limb(a, i) = 0
    /\ Limb(a, ((p - 1) \div 15) + 1) % (2 ^ ((p - 1) % 15)) = 0

\* long division, one digit of the quotient at a time.  The digit is
\* estimated from the two leading digits of the running remainder r < d * Base
\* and the leading digit of d, which is at least Base / 2: the estimate,
\* capped at Base - 1, is the digit or exceeds it by at most 2.
Estimate(r, d) ==
    (Limb(r, Len(d) + 1) * Base + Limb(r, Len(d))) \div d[Len(d)]

QuotDigitFrom(r, d, qhat) ==
    IF BigCmp(BigMulSmall(d, qhat), r) <= 0 THEN qhat
    ELSE IF BigCmp(BigMulSmall(d, qhat - 1), r) <= 0 THEN qhat - 1
    ELSE qhat - 2

QuotDigit(r, d) ==
    QuotDigitFrom(r, d, IF Estimate(r, d) > Base - 1 THEN Base - 1
                        ELSE Estimate(r, d))

\* the digits n[i - 1], ..., n[1] are still to be brought down; r is the
\* running remainder, q the digits of the quotient found
RECURSIVE BigDivModFrom(_, _, _, _, _)
RECURSIVE BigDivModNext(_, _, _, _, _)

\* the digit t of the quotient is taken
BigDivModDigit(n, d, i, q, r, t) ==
    BigDivModNext(n, d, i, <<t>> \o q, BigSub(r, BigMulSmall(d, t)))

BigDivModNext(n, d, i, q, r) ==
    IF i = 1 THEN <<q, r>>
    ELSE BigDivModFrom(n, d, i - 1, q, BigNorm(<<n[i - 1]>> \o r))

BigDivModFrom(n, d, i, q, r) ==
    IF BigCmp(r, d) < 0
    THEN BigDivModNext(n, d, i, IF q = <<>> THEN q ELSE <<0>> \o q, r)
    ELSE BigDivModDigit(n, d, i, q, r, QuotDigit(r, d))

\* the division of n by d where the leading digit of d is Base / 2 or more:
\* it starts from the leading digits of n, as many as d has
BigDivModScaled(n, d) ==
    BigDivModFrom(n, d, Len(n) - Len(d) + 1, <<>>,
                  BigNorm(SubSeq(n, Len(n) - Len(d) + 1, Len(n))))

\* <<n \div d, n % d>> from the quotient and remainder of n * 2^s by d * 2^s
Unscaled(qr, s) == <<qr[1], BigShr(qr[2], s)>>

\* n and d are scaled by the power of 2 that brings the leading digit of d
\* to Base / 2 or more
BigDivModBy(n, d, s) ==
    Unscaled(BigDivModScaled(BigShl(n, s), BigShl(d, s)), s)

\* <<n \div d, n % d>> for d > 0
BigDivMod(n, d) ==
    IF BigCmp(n, d) < 0 THEN <<<<>>, n>>
    ELSE BigDivModBy(n, d, 15 - SmallBitLen(d[Len(d)]))

\* q, or q + 1 where what was cut off compares to one half as c says:
\* above, or equal with q odd
RoundUpIf(q, c) ==
    IF c > 0 \/ (c = 0 /\ BigOdd(q)) THEN BigAdd(q, <<1>>) ELSE q

\* the quotient of qr = <<q, r>> by d rounded to the nearest integer, a
\* remainder of exactly half going to the even neighbour
HalfEven(qr, d) ==
    IF qr[2] = <<>> THEN qr[1]
    ELSE RoundUpIf(qr[1], BigCmp(BigShl(qr[2], 1), d))

\* n / d rounded to the nearest integer, half to even
Quot(n, d) == HalfEven(BigDivMod(n, d), d)

\* n / 2^j rounded to the nearest integer, half to even: the binary digits
\* cut off are one half exactly when digit j is 1 and those below are 0
QuotPow2(n, j) ==
    IF j <= 0 THEN BigShl(n, 0 - j)
    ELSE RoundUpIf(BigShr(n, j),
                   IF BitAt(n, j) = 0 THEN 0 - 1
                   ELSE IF ZeroBelow(n, j) THEN 0 ELSE 1)

FloatZero == [s |-> 1, m |-> <<>>, e |-> 0]
TwoTo52 == <<0, 0, 0, 128>>

\* the double s * m * 2^e; a significand rounded up to 2^53 is 2^52 with
\* the next exponent
Pack(s, m, e) ==
    IF BitLen(m) = 54 THEN [s |-> s, m |-> TwoTo52, e |-> e + 1]
    ELSE [s |-> s, m |-> m, e |-> e]

\* the double nearest to s * n * 2^e2, ties to even: n is brought to 53
\* binary digits
FloatOfBig(s, n, e2) ==
    IF n = <<>> THEN FloatZero
    ELSE Pack(s, QuotPow2(n, BitLen(n) - 53), e2 + BitLen(n) - 53)

\* k with 2^k <= n / d < 2^(k + 1), l being BitLen(n) - BitLen(d)
LeadExp(n, d, l) ==
    IF BigCmp(BigShl(n, 0 - l), BigShl(d, l)) >= 0 THEN l ELSE l - 1

\* the double nearest to s * (n / d) * 2^e2 where 2^k <= n / d < 2^(k + 1)
FloatAt(s, n, d, e2, k) ==
    Pack(s, Quot(BigShl(n, 52 - k), BigShl(d, k - 52)), e2 + k - 52)

\* the double nearest to s * (n / d) * 2^e2, ties to even
FloatOf(s, n, d, e2) ==
    IF n = <<>> THEN FloatZero
    ELSE FloatAt(s, n, d, e2, LeadExp(n, d, BitLen(n) - BitLen(d)))

Sign(k) == IF k < 0 THEN 0 - 1 ELSE 1
Magnitude(k) == IF k < 0 THEN 0 - k ELSE k

\* float(k) for an int k
FloatOfInt(k) == FloatOfBig(Sign(k), BigOf(Magnitude(k)), 0)

\* the float the program holds for the amount of k units of 1/10000
FloatOfUnits(k) == FloatOf(Sign(k), BigOf(Magnitude(k)), BigOf(Scale), 0)

\* x * y, x / y, x + y on floats; x / 0.0 raises
Fmul(x, y) ==
    IF x.m = <<>> \/ y.m = <<>> THEN FloatZero
    ELSE FloatOfBig(x.s * y.s, BigMul(x.m, y.m), x.e + y.e)

Fdiv(x, y) ==
    IF y.m = <<>> THEN Raised("ZeroDivisionError")
    ELSE IF x.m = <<>> THEN FloatZero
    ELSE FloatOf(x.s * y.s, x.m, y.m, x.e - y.e)

\* the sum of xs * a * 2^e and ys * b * 2^e, c comparing a to b
FaddAt(xs, ys, e, a, b, c) ==
    IF xs # ys /\ c = 0 THEN FloatZero
    ELSE FloatOfBig(IF xs = ys \/ c > 0 THEN xs ELSE ys,
                    IF xs = ys THEN BigAdd(a, b)
                    ELSE IF c > 0 THEN BigSub(a, b) ELSE BigSub(b, a),
                    e)

\* the significands are brought to the smaller exponent e
FaddTo(x, y, e) ==
    FaddAt(x.s, y.s, e, BigShl(x.m, x.e - e), BigShl(y.m, y.e - e),
           BigCmp(BigShl(x.m, x.e - e), BigShl(y.m, y.e - e)))

Fadd(x, y) ==
    IF x.m = <<>> THEN y
    ELSE IF y.m = <<>> THEN x
    ELSE FaddTo(x, y, IF x.e < y.e THEN x.e ELSE y.e)

\* round(x, digits) for a float x, as the integer round(x, digits) *
\* 10^digits: Python rounds the exact binary value of x, a value exactly
\* halfway between two candidates going to the even one
RoundFloat(x, digits) ==
    IF x.m = <<>> THEN 0
    ELSE x.s * BigToInt(QuotPow2(BigMulSmall(x.m, 10 ^ digits), 0 - x.e))

MaxInt == 2147483647

\* `rounded`, the result of round(...) on a float expression of the program
\* whose value in decimal arithmetic is x * y / d (x >= 0, y >= 0, d > 0),
\* found the short way where x * y fits in 32 bits.  The float is within
\* 2^-49 of the decimal value relative to its size; a decimal value that is
\* not exactly halfway between two integers is at least 1 / (2 * x * y) >
\* 2^-32 away from halfway relative to its size, so the float is rounded
\* to the same integer as the decimal value.  Exactly halfway the binary
\* value of the float decides, and `rounded` is evaluated.
MulDivRound(x, y, d, rounded) ==
    IF y = 0 THEN 0
    ELSE IF x > MaxInt \div y THEN rounded
    ELSE LET q == (x * y) \div d
             r == (x * y) % d
         IN  IF 2 * r < d THEN q
             ELSE IF 2 * r > d THEN q + 1
             ELSE rounded

\* round(capital * trade_pct, 2)
BetSize(cap, pct) ==
    100 * MulDivRound(cap, pct, 100 * Scale,
                      RoundFloat(Fmul(FloatOfUnits(cap), FloatOfUnits(pct)),
                                 2))

\* round(bet_size / entry_price, 4)
Shares(bet_size, entry_price) ==
    MulDivRound(bet_size, Scale, entry_price,
                RoundFloat(Fdiv(FloatOfUnits(bet_size),
                                FloatOfUnits(entry_price)), 4))

-----------------------------------------------------------------------------
(* Trade *)

\* Trade(id=..., market=..., ...): exit_price and pnl default to None,
\* status to "OPEN"
Trade(id, market, direction, entry_price, shares, bet_size, entry_time) ==
    [id |-> id, market |-> market, direction |-> direction,
     entry_price |-> entry_price, shares |-> shares, bet_size |-> bet_size,
     entry_time |-> entry_time, exit_price |-> None, pnl |-> None,
     status |-> "OPEN"]

\* Trade.close, line by line

\* mutant: exit_price is not recorded
SetExitPrice_Skipped(trade, exit_price) == trade

\* self.exit_price = exit_price
SetExitPrice(trade, exit_price) ==
    [trade EXCEPT !.exit_price = <<exit_price>>]

\* self.pnl = round(proceeds - self.bet_size, 4), proceeds = shares * 1.0,
\* or self.pnl = round(-self.bet_size, 4)
SetPnl(trade, won) ==
    [trade EXCEPT !.pnl = IF won THEN <<trade.shares - trade.bet_size>>
                          ELSE <<0 - trade.bet_size>>]

\* self.status = "WIN" or self.status = "LOSS"
SetStatus(trade, won) ==
    [trade EXCEPT !.status = IF won THEN "WIN" ELSE "LOSS"]

\* Trade.close(won, exit_price): the trade after the call; the value the
\* method returns is the pnl field of the result
Trade_close(trade, won, exit_price) ==
    SetStatus(SetPnl(SetExitPrice(trade, exit_price), won), won)

-----------------------------------------------------------------------------
(* db.py: the two tables and the calls on them.  The world w is the        *)
(* Portfolio's fields together with the tables.                            *)

Abs(x) == IF x < 0 THEN 0 - x ELSE x

\* json.dumps writes each float as a decimal literal; json.loads reads it
FloatLiteral(x) ==
    [sign |-> IF x < 0 THEN "-" ELSE "", whole |-> Abs(x) \div Scale,
     frac |-> Abs(x) % Scale]
ParseFloat(lit) ==
    (IF lit.sign = "-" THEN 0 - 1 ELSE 1) * (lit.whole * Scale + lit.frac)
json_dumps(list) == [i \in 1..Len(list) |-> FloatLiteral(list[i])]
json_loads(text) == [i \in 1..Len(text) |-> ParseFloat(text[i])]

\* a row of table trades: the ten columns save_trade writes and created_at,
\* which takes its default datetime('now') whenever the row is written
TradeRow(trade, created_at) ==
    [id |-> trade.id, market |-> trade.market, direction |-> trade.direction,
     entry_price |-> trade.entry_price, shares |-> trade.shares,
     bet_size |-> trade.bet_size, entry_time |-> trade.entry_time,
     exit_price |-> trade.exit_price, pnl |-> trade.pnl,
     status |-> trade.status, created_at |-> created_at]

\* INSERT OR REPLACE INTO trades ... keyed by the primary key id
save_trade(w, trade) ==
    [w EXCEPT
       !.db_trades = [i \in (DOMAIN w.db_trades) \cup {trade.id} |->
                         IF i = trade.id THEN TradeRow(trade, w.db_now)
                         ELSE w.db_trades[i]],
       !.db_calls = Append(@, <<"save_trade", trade.id, trade.status>>)]

\* INSERT OR REPLACE INTO portfolio_state ... the single row id = 1
save_portfolio_state(w, cap, initial, history, counter) ==
    [w EXCEPT
       !.db_state = <<[capital |-> cap, initial_capital |-> initial,
                       pnl_history |-> json_dumps(history),
                       trade_counter |-> counter,
                       updated_at |-> w.db_now]>>,
       !.db_calls = Append(@, <<"save_portfolio_state", counter, "">>)]

\* the rows of a table taken in ascending id order
RECURSIVE OrderById(_, _)
OrderById(table, ids) ==
    IF ids = {} THEN <<>>
    ELSE LET least == CHOOSE i \in ids : \A j \in ids : i <= j
         IN  <<table[least]>> \o OrderById(table, ids \ {least})

\* mutant: SELECT * FROM trades ORDER BY id
SelectClosed_All(table) == OrderById(table, DOMAIN table)

\* SELECT * FROM trades WHERE status != 'OPEN' ORDER BY id
SelectClosed(table) ==
    OrderById(table, {i \in DOMAIN table : table[i].status # "OPEN"})

\* t = Trade(id=r["id"], ..., status=r["status"])
TradeOfRow(r) ==
    [Trade(r.id, r.market, r.direction, r.entry_price, r.shares, r.bet_size,
           r.entry_time)
       EXCEPT !.exit_price = r.exit_price, !.pnl = r.pnl,
              !.status = r.status]

\* load_state(), the first SELECT and the locals set from its row.  With a
\* stored snapshot the log message reads pnl_history[-1], which raises
\* IndexError on an empty list; no snapshot a Portfolio saves has one, its
\* pnl_history starts as [0.0] and only grows.
LoadSnapshot(w) ==
    LET row == w.db_state
    IN  IF row # None
        THEN IF json_loads(row[1].pnl_history) = <<>>
             THEN Raised("IndexError")
             ELSE [capital |-> row[1].capital,
                   initial_capital |-> row[1].initial_capital,
                   pnl_history |-> json_loads(row[1].pnl_history),
                   trade_counter |-> row[1].trade_counter]
        ELSE [capital |-> INITIAL_CAPITAL,
              initial_capital |-> INITIAL_CAPITAL,
              pnl_history |-> <<0>>,
              trade_counter |-> 0]

\* load_state(), the second SELECT and the Trades built from its rows
LoadClosed(w) ==
    LET rows == SelectClosed(w.db_trades)
    IN  [i \in 1..Len(rows) |-> TradeOfRow(rows[i])]

\* return {"capital": capital, ..., "closed_trades": closed_trades}
Loaded(snapshot, closed) ==
    [capital |-> snapshot.capital,
     initial_capital |-> snapshot.initial_capital,
     pnl_history |-> snapshot.pnl_history,
     trade_counter |-> snapshot.trade_counter,
     closed_trades |-> closed]

\* load_state() with no write to the database between its two reads
load_state(w) ==
    LET snapshot == LoadSnapshot(w)
    IN  IF "raised" \in DOMAIN snapshot THEN snapshot
        ELSE Loaded(snapshot, LoadClosed(w))

-----------------------------------------------------------------------------
(* Portfolio *)

\* Portfolio(initial_capital, trade_pct, db): the fields __init__ sets, on
\* the database as it is (its tables, its clock and the calls made on it),
\* which __init__ does not touch
Portfolio(initial, pct, trades, state, now, calls) ==
    [initial_capital |-> initial, capital |-> initial, trade_pct |-> pct,
     active_trade |-> None, closed_trades |-> <<>>, pnl_history |-> <<0>>,
     trade_counter |-> 0, signal_streak |-> EmptyStreak,
     db_trades |-> trades, db_state |-> state, db_now |-> now,
     db_calls |-> calls]

\* restore, line by line

\* self.capital = saved["capital"]
RestoreCapital(w, saved) == [w EXCEPT !.capital = saved.capital]

\* self.initial_capital = saved["initial_capital"]
RestoreInitialCapital(w, saved) ==
    [w EXCEPT !.initial_capital = saved.initial_capital]

\* self.pnl_history = saved["pnl_history"]
RestorePnlHistory(w, saved) == [w EXCEPT !.pnl_history = saved.pnl_history]

\* mutant: the trade counter is not taken from the snapshot
RestoreCounter_Kept(w, saved) == w

\* self._trade_counter = saved["trade_counter"]
RestoreCounter(w, saved) == [w EXCEPT !.trade_counter = saved.trade_counter]

\* self.closed_trades = saved["closed_trades"]
RestoreClosed(w, saved) == [w EXCEPT !.closed_trades = saved.closed_trades]

\* Portfolio.restore: the Portfolio after the call
restore(w, saved) ==
    RestoreClosed(RestoreCounter(RestorePnlHistory(RestoreInitialCapital(
        RestoreCapital(w, saved), saved), saved), saved), saved)

\* mutant: every label is taken as directional
IsDirectional_Any(label) == TRUE

\* label in ("UP", "DOWN", "STRONG UP", "STRONG DOWN")
IsDirectional(label) == label \in {"UP", "DOWN", "STRONG UP", "STRONG DOWN"}

\* mutant: label == "UP" in place of "UP" in label
ContainsUP_Exact(label) == label = "UP"

\* "UP" in label, on the labels the feed produces
ContainsUP(label) == label \in {"UP", "STRONG UP"}

\* direction = "UP" if "UP" in label else "DOWN"
Direction(label) == IF ContainsUP(label) THEN "UP" ELSE "DOWN"

\* mutant: a change of direction keeps the count
StreakUpdate_KeepCount(streak, direction) ==
    [label |-> direction, count |-> streak.count + 1]

\* the streak after one more signal of the given direction
StreakUpdate(streak, direction) ==
    IF streak.label = direction
    THEN [streak EXCEPT !.count = @ + 1]
    ELSE [label |-> direction, count |-> 1]

\* mutants of the guards
ActiveTradeExists_Ignored(w) == FALSE
StreakTooShort_OffByOne(streak) == streak.count < ENTRY_AFTER_N - 1
EntryPriceTooLow_Strict(entry_price) == entry_price < MIN_ENTRY_PRICE

\* the guards of consider_entry, in the order the code takes them
ActiveTradeExists(w) == w.active_trade # None
CapitalTooLow(w) == w.capital < MIN_CAPITAL
StreakTooShort(streak) == streak.count < ENTRY_AFTER_N
ConfidenceTooLow(conf) == conf < MIN_CONFIDENCE
EntryPriceTooLow(entry_price) == entry_price <= MIN_ENTRY_PRICE

\* mutant: a refused call still spends an identifier
ReturnFalse_CountsAttempt(w) ==
    [w |-> [w EXCEPT !.trade_counter = @ + 1], ret |-> FALSE]

\* return False: the call ends here, the Portfolio as it is
ReturnFalse(w) == [w |-> w, ret |-> FALSE]

\* entry_price = up_price if direction == "UP" else down_price
SidePrice(direction, up_price, down_price) ==
    IF direction = "UP" THEN up_price ELSE down_price

\* mutant: the counter is not advanced
NextId_Reused(counter) == counter

\* self._trade_counter += 1
NextId(counter) == counter + 1

\* the end of consider_entry, line by line

\* self._trade_counter += 1
EnterCount(w) == [w EXCEPT !.trade_counter = NextId(@)]

\* self.active_trade = Trade(id=self._trade_counter, ...)
EnterTrade(w, market, direction, entry_price, shares, bet_size, now) ==
    [w EXCEPT !.active_trade =
                  <<Trade(w.trade_counter, market, direction, entry_price,
                          shares, bet_size, now)>>]

\* mutant: the streak is kept when the trade is entered
EnterResetStreak_Kept(w) == w

\* self._signal_streak = {"label": None, "count": 0}
EnterResetStreak(w) == [w EXCEPT !.signal_streak = EmptyStreak]

\* self._db.save_trade(self.active_trade)
EnterSave(w) == save_trade(w, w.active_trade[1])


\* the trade is created, becomes the active trade and is saved
Enter(w, market_question, direction, entry_price, bet_size, now) ==
    EnterSave(EnterResetStreak(
        EnterTrade(EnterCount(w), market_question, direction, entry_price,
                   Shares(bet_size, entry_price), bet_size, now)))

\* the call goes on to enter a trade: the Portfolio so far and the locals
GoOn(w, direction, entry_price, bet_size) ==
    [w |-> w, ret |-> TRUE, direction |-> direction,
     entry_price |-> entry_price, bet_size |-> bet_size]

\* consider_entry down to the last guard: the call returns False, or goes
\* on with direction, entry_price and bet_size
Admit(w, signal, up_price, down_price) ==
    IF ActiveTradeExists(w) THEN ReturnFalse(w)
    ELSE IF CapitalTooLow(w) THEN ReturnFalse(w)
    ELSE IF ~IsDirectional(signal.label)
    THEN ReturnFalse([w EXCEPT !.signal_streak = EmptyStreak])
    ELSE
      LET direction == Direction(signal.label)
          streak == StreakUpdate(w.signal_streak, direction)
          w1 == [w EXCEPT !.signal_streak = streak]
          bet_size == BetSize(w.capital, w.trade_pct)
          entry_price == SidePrice(direction, up_price, down_price)
      IN  IF StreakTooShort(streak) THEN ReturnFalse(w1)
          ELSE IF ConfidenceTooLow(signal.confidence) THEN ReturnFalse(w1)
          ELSE IF EntryPriceTooLow(entry_price) THEN ReturnFalse(w1)
          ELSE GoOn(w1, direction, entry_price, bet_size)

\* Portfolio.consider_entry: the world after the call and the value returned
EnterIfAdmitted(a, market_question, now) ==
    IF ~a.ret THEN a
    ELSE [w |-> Enter(a.w, market_question, a.direction, a.entry_price,
                      a.bet_size, now),
          ret |-> TRUE]

ConsiderEntry(w, signal, market_question, up_price, down_price, now) ==
    EnterIfAdmitted(Admit(w, signal, up_price, down_price), market_question,
                    now)

\* if not self.active_trade: return
NoActiveTrade(w) == w.active_trade = None

\* mutant: the snapshot is written even when there is nothing to resolve
ReturnNone_Snapshot(w) ==
    [w |-> save_portfolio_state(w, w.capital, w.initial_capital,
                                w.pnl_history, w.trade_counter),
     ret |-> None]

\* return (None): the call ends here, the Portfolio as it is
ReturnNone(w) == [w |-> w, ret |-> None]

\* mutant: newest first
AppendClosed_Front(list, trade) == <<trade>> \o list

\* self.closed_trades.append(trade)
AppendClosed(list, trade) == Append(list, trade)

\* mutant: the held side must be strictly above one half
Won_Strict(trade, up_price, down_price, force_winner) ==
    IF force_winner # None THEN force_winner[1]
    ELSE IF trade.direction = "UP" THEN up_price > WIN_THRESHOLD
    ELSE down_price > WIN_THRESHOLD

\* the outcome close_trade settles on
Won(trade, up_price, down_price, force_winner) ==
    IF force_winner # None THEN force_winner[1]
    ELSE IF trade.direction = "UP" THEN up_price >= WIN_THRESHOLD
    ELSE down_price >= WIN_THRESHOLD

\* exit_price = 1.0 if won else 0.0
ExitPrice(won) == IF won THEN WIN_EXIT_PRICE ELSE LOSS_EXIT_PRICE

\* mutant: the stake is not returned with the profit
Settle_ProfitOnly(cap, bet_size, pnl) == cap + pnl

\* self.capital = round(self.capital + trade.bet_size + pnl, 4)
Settle(cap, bet_size, pnl) == cap + bet_size + pnl

\* total_pnl = round(self.capital - self.initial_capital, 4)
TotalPnl(cap, initial) == cap - initial

\* mutant: no snapshot is taken
AppendSnapshot_Skipped(history, total_pnl) == history

\* self.pnl_history.append(total_pnl)
AppendSnapshot(history, total_pnl) == Append(history, total_pnl)

\* close_trade, line by line.  The Trade object is shared: trade.close(...)
\* changes the object that is still self.active_trade, and the object
\* appended to closed_trades is that same one.

\* trade.close(won, exit_price), a line at a time: trade is the object
\* self.active_trade
CloseExit(w, won) ==
    [w EXCEPT !.active_trade = <<SetExitPrice(@[1], ExitPrice(won))>>]
ClosePnl(w, won) == [w EXCEPT !.active_trade = <<SetPnl(@[1], won)>>]
CloseStatus(w, won) == [w EXCEPT !.active_trade = <<SetStatus(@[1], won)>>]

\* self.capital = round(self.capital + trade.bet_size + pnl, 4); pnl is
\* what trade.close returned, self.pnl
CloseSettle(w) ==
    [w EXCEPT !.capital = Settle(@, w.active_trade[1].bet_size,
                                 w.active_trade[1].pnl[1])]

\* won = ...; exit_price = ...; pnl = trade.close(won, exit_price);
\* self.capital = round(self.capital + trade.bet_size + pnl, 4)
CloseResolve(w, up_price, down_price, force_winner) ==
    LET won == Won(w.active_trade[1], up_price, down_price, force_winner)
        trade == Trade_close(w.active_trade[1], won, ExitPrice(won))
    IN  CloseSettle([w EXCEPT !.active_trade = <<trade>>])

\* self.closed_trades.append(trade)
CloseAppend(w) ==
    [w EXCEPT !.closed_trades = AppendClosed(@, w.active_trade[1])]

\* self.active_trade = None
CloseClear(w) == [w EXCEPT !.active_trade = None]

\* self._signal_streak = {"label": None, "count": 0}
CloseResetStreak(w) == [w EXCEPT !.signal_streak = EmptyStreak]

\* total_pnl = round(self.capital - self.initial_capital, 4);
\* self.pnl_history.append(round(total_pnl, 4))
CloseSnapshot(w) ==
    [w EXCEPT !.pnl_history =
                  AppendSnapshot(@, TotalPnl(w.capital, w.initial_capital))]

\* close_trade from self.closed_trades.append(trade) to the snapshot
CloseBook(w) == CloseSnapshot(CloseResetStreak(CloseClear(CloseAppend(w))))

\* mutant: the resolved trade is not written
CloseSaveTrade_Skipped(w) == w

\* self._db.save_trade(trade)
CloseSaveTrade(w) == save_trade(w, Last(w.closed_trades))

\* self._db.save_portfolio_state(self.capital, ...)
CloseSaveState(w) ==
    save_portfolio_state(w, w.capital, w.initial_capital, w.pnl_history,
                         w.trade_counter)

\* Portfolio.close_trade: the world after the call and the value returned
CloseTrade(w, up_price, down_price, force_winner) ==
    IF NoActiveTrade(w) THEN ReturnNone(w)
    ELSE
      LET w1 == CloseResolve(w, up_price, down_price, force_winner)
          w2 == CloseSaveState(CloseSaveTrade(CloseBook(w1)))
      IN  [w |-> w2, ret |-> <<Last(w2.closed_trades)>>]

\* mutant: a cancellation is booked as a result of zero
Cancelled_ZeroPnl(trade) ==
    [trade EXCEPT !.status = "CANCELLED", !.pnl = <<0>>]

\* self.active_trade.status = "CANCELLED"
Cancelled(trade) == [trade EXCEPT !.status = "CANCELLED"]

\* cancel_active_trade, line by line

\* self.active_trade.status = "CANCELLED"
CancelMark(w) == [w EXCEPT !.active_trade = <<Cancelled(@[1])>>]

\* self.closed_trades.append(self.active_trade)
CancelAppend(w) ==
    [w EXCEPT !.closed_trades = AppendClosed(@, w.active_trade[1])]

\* self._db.save_trade(self.active_trade)
CancelSaveTrade(w) == save_trade(w, w.active_trade[1])

CancelSaveState_Skipped(w) == w

\* self._db.save_portfolio_state(self.capital, ...)
CancelSaveState(w) ==
    save_portfolio_state(w, w.capital, w.initial_capital, w.pnl_history,
                         w.trade_counter)

\* self.active_trade = None
CancelClear(w) == [w EXCEPT !.active_trade = None]

\* Portfolio.cancel_active_trade: the world after the call (returns None)
CancelActiveTrade(w) ==
    IF NoActiveTrade(w) THEN ReturnNone(w)
    ELSE [w |-> CancelClear(CancelSaveState(CancelSaveTrade(
                    CancelAppend(CancelMark(w))))),
          ret |-> None]

\* start-up with no other thread at work: a Portfolio is constructed on the
\* database and restore(db.load_state()) is called on it; when load_state
\* raises, restore is not called and start-up ends with the exception
Restart(w) ==
    LET saved == load_state(w)
    IN  IF "raised" \in DOMAIN saved THEN saved
        ELSE restore(Portfolio(INITIAL_CAPITAL, TRADE_PCT, w.db_trades,
                               w.db_state, w.db_now,
                               Append(w.db_calls, <<"load_state", 0, "">>)),
                     saved)

\* stats: realized_pnl = sum(t.pnl for t in closed if t.pnl is not None)
RECURSIVE realized_pnl(_)
realized_pnl(closed) ==
    IF closed = <<>> THEN 0
    ELSE (IF Head(closed).pnl # None THEN Head(closed).pnl[1] ELSE 0)
         + realized_pnl(Tail(closed))

\* the float sum(...) builds: the values added one by one, from the left,
\* to 0
RECURSIVE FloatSum(_, _)
FloatSum(amounts, acc) ==
    IF amounts = <<>> THEN acc
    ELSE FloatSum(Tail(amounts), Fadd(acc, FloatOfUnits(Head(amounts))))

\* [t.pnl for t in closed if t.pnl is not None]
RECURSIVE Pnls(_)
Pnls(closed) ==
    IF closed = <<>> THEN <<>>
    ELSE (IF Head(closed).pnl # None THEN <<Head(closed).pnl[1]>> ELSE <<>>)
         \o Pnls(Tail(closed))

\* round(total_pnl / self.initial_capital * 100, 2); the division raises
\* for an initial_capital of 0
total_pnl_pct(total_pnl, initial) ==
    IF initial = 0 THEN Raised("ZeroDivisionError")
    ELSE 100 * Sign(total_pnl) * Sign(initial)
           * MulDivRound(Magnitude(total_pnl), Scale, Magnitude(initial),
                         Magnitude(RoundFloat(
                             Fmul(Fdiv(FloatOfUnits(total_pnl),
                                       FloatOfUnits(initial)),
                                  FloatOfInt(100)), 2)))

\* round(len(wins) / n_closed * 100, 1)
win_rate(n_wins, n_closed) ==
    1000 * MulDivRound(n_wins, 1000, n_closed,
                       RoundFloat(Fmul(Fdiv(FloatOfInt(n_wins),
                                            FloatOfInt(n_closed)),
                                       FloatOfInt(100)), 1))

\* round(realized_pnl / n_closed, 4)
avg_pnl(closed, n_closed) ==
    RoundFloat(Fdiv(FloatSum(Pnls(closed), FloatZero),
                    FloatOfInt(n_closed)), 4)

\* Trade.mark_to_market: round(self.shares * current_price, 4)
mark_to_market(trade, current_price) ==
    MulDivRound(trade.shares, current_price, Scale,
                RoundFloat(Fmul(FloatOfUnits(trade.shares),
                                FloatOfUnits(current_price)), 4))

\* Trade.unrealized_pnl
unrealized_pnl(trade, current_price) ==
    mark_to_market(trade, current_price) - trade.bet_size

\* Trade.to_dict
to_dict(trade) == trade

\* Portfolio.current_price_for_trade, no other thread at work
current_price_for_trade(w, up_price, down_price) ==
    IF w.active_trade = None THEN 0
    ELSE IF w.active_trade[1].direction = "UP" THEN up_price ELSE down_price

\* the elements of a list that satisfy a status test, in order
RECURSIVE WithStatus(_, _)
WithStatus(list, status) ==
    IF list = <<>> THEN <<>>
    ELSE (IF Head(list).status = status THEN <<Head(list)>> ELSE <<>>)
         \o WithStatus(Tail(list), status)

\* the pnl of the trades for which `if t.pnl` holds (not None, not 0.0)
NonZeroPnls(closed) ==
    {closed[i].pnl[1] : i \in {j \in 1..Len(closed) :
                                 closed[j].pnl # None /\ closed[j].pnl # <<0>>}}

Max(set, default) ==
    IF set = {} THEN default ELSE CHOOSE x \in set : \A y \in set : y <= x
Min(set, default) ==
    IF set = {} THEN default ELSE CHOOSE x \in set : \A y \in set : x <= y

\* list[-n:]
Tail_n(list, n) ==
    IF Len(list) <= n THEN list ELSE SubSeq(list, Len(list) - n + 1, Len(list))

\* reversed(list)
Reversed(list) == [i \in 1..Len(list) |-> list[Len(list) + 1 - i]]

\* stats, get_unrealized, current_price_for_trade and Trade.to_dict, read by
\* read.  None of them holds a lock, and each read of a field of the
\* Portfolio or of a Trade finds it as it is at that moment.  A step is one
\* such read with the work on locals that follows it: a line with one read
\* is one step, l.231 with its three reads (self.capital, self.active_trade
\* for the test, self.active_trade for its bet_size) is three.  A line that
\* walks closed_trades (l.223, 224, 228, 255, 257, 258, 262) is one step:
\* the list only grows, a Trade is appended after its last assignment
\* (l.187 after Trade.close, l.210 after l.209), so the walk finds the list
\* as it is at the moment it ends.

\* the locals of stats and of the calls it makes, or of a get_unrealized
\* called on its own (op), as the call begins.  stats holds `closed` (the
\* list closed_trades itself, l.222), `wins` and `losses` (their lengths are
\* all it uses), the trades summed at l.228, t (the Trade l.235 found, held
\* by its id) and the entries of the dict it builds; loaded is what l.231
\* has read of its sum before it reads self.active_trade; at is the line
\* the call of current_price_for_trade in progress returns to.
ReaderCall(op, up_price, down_price) ==
    [op |-> op, up_price |-> up_price, down_price |-> down_price,
     at |-> "", wins |-> 0, losses |-> 0, summed |-> <<>>,
     unrealized_pnl |-> 0, loaded |-> 0, equity |-> 0, t |-> None, cp |-> 0,
     exit_price |-> None, pnl |-> None, active |-> None,
     initial_capital |-> 0, capital |-> 0, total_pnl_pct |-> 0,
     total_trades |-> 0, cancelled |-> 0, best_trade |-> 0,
     worst_trade |-> 0, pnl_history |-> <<>>, trade_log |-> <<>>]

\* what a line leaves: the line to execute next with the locals, or the
\* call over with what it returned or raised
Goes(line, f) == [pc |-> line, f |-> <<f>>, ret |-> None]
Hands(f, value) ==
    [pc |-> "idle", f |-> None, ret |-> <<[op |-> f.op, value |-> <<value>>]>>]
Raises(f, exception) == Hands(f, Raised(exception))

\* the Trade object a local refers to: the active trade or a closed one (a
\* Portfolio gives an id to one Trade only, C7)
TradeObject(w, id) ==
    IF w.active_trade # None /\ w.active_trade[1].id = id
    THEN w.active_trade[1]
    ELSE w.closed_trades[CHOOSE i \in DOMAIN w.closed_trades :
                             w.closed_trades[i].id = id]

\* get_unrealized returns x: to its caller, or to stats at l.229
GotUnrealized(f, x) ==
    IF f.op = "stats" THEN Goes("stats:231", [f EXCEPT !.unrealized_pnl = x])
    ELSE Hands(f, x)

\* current_price_for_trade returns cp: to get_unrealized at l.159, or to
\* stats at l.236, whose next line calls t.to_dict() (l.238) on what l.235
\* found
GotPrice(f, cp) ==
    IF f.at = "get_unrealized:159"
    THEN Goes("get_unrealized:160", [f EXCEPT !.cp = cp])
    ELSE IF f.t = None THEN Raises(f, "AttributeError")
    ELSE Goes("to_dict:63", [f EXCEPT !.cp = cp])

\* Portfolio.stats: the dict returned, built from the locals and from
\* self._signal_streak.  Percentages are held in units of 1/10000 like the
\* amounts (win_rate has one decimal, total_pnl_pct two).
StatsDict(f, streak) ==
    LET n_closed == f.wins + f.losses
        realized == realized_pnl(f.summed)
    IN  [initial_capital |-> f.initial_capital,
         capital |-> f.capital,
         equity |-> f.equity,
         realized_pnl |-> realized,
         unrealized_pnl |-> f.unrealized_pnl,
         total_pnl |-> realized + f.unrealized_pnl,
         total_pnl_pct |-> f.total_pnl_pct,
         total_trades |-> f.total_trades,
         wins |-> f.wins,
         losses |-> f.losses,
         cancelled |-> f.cancelled,
         win_rate |-> IF n_closed # 0 THEN win_rate(f.wins, n_closed) ELSE 0,
         best_trade |-> f.best_trade,
         worst_trade |-> f.worst_trade,
         avg_pnl |-> IF n_closed # 0 THEN avg_pnl(f.summed, n_closed) ELSE 0,
         pnl_history |-> f.pnl_history,
         active_trade |-> f.active,
         trade_log |-> f.trade_log,
         signal_streak |-> streak]

\* the line of the reader named by line, executed on the Portfolio w with
\* the locals f
ReaderLine(w, line, f) ==
    CASE line = "stats:223" ->
           \* closed = self.closed_trades; wins = [t for t in closed if ...]
           Goes("stats:224",
                [f EXCEPT !.wins = Len(WithStatus(w.closed_trades, "WIN"))])
      [] line = "stats:224" ->
           \* losses; n_closed and win_rate (l.225-226) are of the locals
           Goes("stats:228",
                [f EXCEPT !.losses = Len(WithStatus(w.closed_trades, "LOSS"))])
      [] line = "stats:228" ->
           \* realized_pnl = sum(t.pnl for t in closed ...); l.229 calls
           \* get_unrealized
           Goes("get_unrealized:157", [f EXCEPT !.summed = w.closed_trades])
      [] line = "get_unrealized:157" ->
           \* if not self.active_trade: return 0.0; l.159 calls
           \* current_price_for_trade
           IF w.active_trade = None THEN GotUnrealized(f, 0)
           ELSE Goes("current_price_for_trade:152",
                     [f EXCEPT !.at = "get_unrealized:159"])
      [] line = "current_price_for_trade:152" ->
           \* if not self.active_trade: return 0.0
           IF w.active_trade = None THEN GotPrice(f, 0)
           ELSE Goes("current_price_for_trade:154", f)
      [] line = "current_price_for_trade:154" ->
           \* self.active_trade.direction, of None when the trade has been
           \* cleared since l.152
           IF w.active_trade = None THEN Raises(f, "AttributeError")
           ELSE GotPrice(f, current_price_for_trade(w, f.up_price,
                                                    f.down_price))
      [] line = "get_unrealized:160" ->
           \* return self.active_trade.unrealized_pnl(cp), of None when the
           \* trade has been cleared since l.157
           IF w.active_trade = None THEN Raises(f, "AttributeError")
           ELSE GotUnrealized(f, unrealized_pnl(w.active_trade[1], f.cp))
      [] line = "stats:231" ->
           \* equity = round(self.capital + (self.active_trade.bet_size if
           \* self.active_trade else 0) + unrealized_pnl, 4) reads the
           \* Portfolio three times; first self.capital (total_pnl, l.230,
           \* is of the locals)
           Goes("stats:231:if", [f EXCEPT !.loaded = w.capital])
      [] line = "stats:231:if" ->
           \* ... if self.active_trade else 0
           IF w.active_trade = None
           THEN Goes("stats:234",
                     [f EXCEPT !.equity = f.loaded + f.unrealized_pnl,
                               !.loaded = 0])
           ELSE Goes("stats:231:bet_size", f)
      [] line = "stats:231:bet_size" ->
           \* self.active_trade.bet_size, of None when the trade has been
           \* cleared since the test
           IF w.active_trade = None THEN Raises(f, "AttributeError")
           ELSE Goes("stats:234",
                     [f EXCEPT !.equity = f.loaded
                                            + w.active_trade[1].bet_size
                                            + f.unrealized_pnl,
                               !.loaded = 0])
      [] line = "stats:234" ->
           \* active = None (l.233); if self.active_trade:
           IF w.active_trade = None THEN Goes("stats:245", f)
           ELSE Goes("stats:235", f)
      [] line = "stats:235" ->
           \* t = self.active_trade, None when the trade has been cleared
           \* since l.234; l.236 calls current_price_for_trade
           Goes("current_price_for_trade:152",
                [f EXCEPT !.t = IF w.active_trade = None THEN None
                                ELSE <<w.active_trade[1].id>>,
                          !.at = "stats:236"])
      [] line = "to_dict:63" ->
           \* t.to_dict(): l.56-62 read what no line writes after the Trade
           \* is built; "exit_price": self.exit_price
           Goes("to_dict:64",
                [f EXCEPT !.exit_price = TradeObject(w, f.t[1]).exit_price])
      [] line = "to_dict:64" ->
           \* "pnl": self.pnl
           Goes("to_dict:65", [f EXCEPT !.pnl = TradeObject(w, f.t[1]).pnl])
      [] line = "to_dict:65" ->
           \* "status": self.status; then the rest of l.237-242, of the
           \* locals and of what no line writes
           LET t == TradeObject(w, f.t[1])
           IN  Goes("stats:245",
                    [f EXCEPT !.active =
                         <<to_dict([t EXCEPT !.exit_price = f.exit_price,
                                             !.pnl = f.pnl])
                           @@ [current_price |-> f.cp,
                               mark_to_market |-> mark_to_market(t, f.cp),
                               unrealized_pnl |-> unrealized_pnl(t, f.cp)]>>])
      [] line = "stats:245" ->
           \* "initial_capital": self.initial_capital
           Goes("stats:246",
                [f EXCEPT !.initial_capital = w.initial_capital])
      [] line = "stats:246" ->
           \* "capital": round(self.capital, 4); l.247-250 are of the locals
           Goes("stats:251", [f EXCEPT !.capital = w.capital])
      [] line = "stats:251" ->
           \* "total_pnl_pct": round(total_pnl / self.initial_capital ...)
           IF w.initial_capital = 0 THEN Raises(f, "ZeroDivisionError")
           ELSE Goes("stats:252",
                     [f EXCEPT !.total_pnl_pct =
                          total_pnl_pct(realized_pnl(f.summed)
                                          + f.unrealized_pnl,
                                        w.initial_capital)])
      [] line = "stats:252" ->
           \* "total_trades": len(closed); l.253-254 are of the locals
           Goes("stats:255",
                [f EXCEPT !.total_trades = Len(w.closed_trades)])
      [] line = "stats:255" ->
           \* "cancelled": len([t for t in closed if ...]); l.256 is of the
           \* locals
           Goes("stats:257",
                [f EXCEPT !.cancelled =
                     Len(WithStatus(w.closed_trades, "CANCELLED"))])
      [] line = "stats:257" ->
           \* "best_trade": round(max(..., default=0), 4)
           Goes("stats:258",
                [f EXCEPT !.best_trade =
                     Max(NonZeroPnls(w.closed_trades), 0)])
      [] line = "stats:258" ->
           \* "worst_trade": round(min(..., default=0), 4); l.259 is of the
           \* locals
           Goes("stats:260",
                [f EXCEPT !.worst_trade =
                     Min(NonZeroPnls(w.closed_trades), 0)])
      [] line = "stats:260" ->
           \* "pnl_history": self.pnl_history[-50:]; l.261 is of the locals
           Goes("stats:262",
                [f EXCEPT !.pnl_history = Tail_n(w.pnl_history, 50)])
      [] line = "stats:262" ->
           \* "trade_log": [t.to_dict() for t in reversed(closed[-20:])]
           Goes("stats:263",
                [f EXCEPT !.trade_log =
                     LET recent == Reversed(Tail_n(w.closed_trades, 20))
                     IN  [i \in 1..Len(recent) |-> to_dict(recent[i])]])
      [] line = "stats:263" ->
           \* "signal_streak": self._signal_streak, and the dict is returned
           Hands(f, StatsDict(f, w.signal_streak))

\* a call of the reader with no other thread at work: what it returns or
\* raises
RECURSIVE ReadOn(_, _)
ReadOn(w, r) ==
    IF r.pc = "idle" THEN r.ret[1].value[1]
    ELSE ReadOn(w, ReaderLine(w, r.pc, r.f[1]))

\* Portfolio.get_unrealized
GetUnrealized(w, up_price, down_price) ==
    ReadOn(w, Goes("get_unrealized:157",
                   ReaderCall("get_unrealized", up_price, down_price)))

\* Portfolio.stats
Stats(w, up_price, down_price) ==
    ReadOn(w, Goes("stats:223", ReaderCall("stats", up_price, down_price)))

-----------------------------------------------------------------------------
(* The state machine.  No method of Portfolio holds a lock, so a call is    *)
(* taken one write at a time, pc naming the line to execute next: the       *)
(* states inside a call are states of every specification.  db.save_trade  *)
(* and db.save_portfolio_state hold db._lock around their one statement and *)
(* its commit and are one step each; db.load_state takes no lock and reads  *)
(* the two tables in two steps.                                             *)

World ==
    [initial_capital |-> initial_capital, capital |-> capital,
     trade_pct |-> trade_pct, active_trade |-> active_trade,
     closed_trades |-> closed_trades, pnl_history |-> pnl_history,
     trade_counter |-> trade_counter, signal_streak |-> signal_streak,
     db_trades |-> db_trades, db_state |-> db_state, db_now |-> db_now,
     db_calls |-> db_calls]

Becomes(w) ==
    /\ initial_capital' = w.initial_capital
    /\ capital' = w.capital
    /\ trade_pct' = w.trade_pct
    /\ active_trade' = w.active_trade
    /\ closed_trades' = w.closed_trades
    /\ pnl_history' = w.pnl_history
    /\ trade_counter' = w.trade_counter
    /\ signal_streak' = w.signal_streak
    /\ db_trades' = w.db_trades
    /\ db_state' = w.db_state
    /\ db_now' = w.db_now
    /\ db_calls' = w.db_calls

\* Portfolio(initial_capital=initial, db=db) on empty tables
InitWith(initial) ==
    /\ initial_capital = initial
    /\ capital = initial
    /\ trade_pct = TRADE_PCT
    /\ active_trade = None
    /\ closed_trades = <<>>
    /\ pnl_history = <<0>>
    /\ trade_counter = 0
    /\ signal_streak = EmptyStreak
    /\ db_trades = <<>>
    /\ db_state = None
    /\ db_now = 0
    /\ db_calls = <<>>
    /\ pc = "idle"
    /\ frame = None
    /\ entered = None
    /\ issued_ids = <<>>
    /\ ret = [op |-> "__init__", value |-> None]
    /\ rpc = "idle"
    /\ rframe = None
    /\ reads = 0
    /\ overlap = 0

\* Portfolio(db=db): the default capital of 100.0
Init == InitWith(INITIAL_CAPITAL)

\* Portfolio(initial_capital=..., db=db), also below the minimum stake
InitAnyCapital == \E initial \in InitialCapitals : InitWith(initial)

\* the driving loop begins a call, which may fall inside a call of the
\* reader
Begins ==
    /\ rpc = "idle" \/ overlap < MaxOverlap
    /\ overlap' = IF rpc = "idle" THEN overlap ELSE overlap + 1
    /\ UNCHANGED <<rpc, rframe, reads>>

\* a line inside a call: the call has not returned and keeps its locals
Pending ==
    UNCHANGED <<issued_ids, ret, frame, entered>>

\* The dict stats returned holds self._signal_streak itself (l.263), not a
\* copy.  While the Portfolio still holds that dict, a count += 1 (l.117)
\* shows in what stats returned; an assignment of a new dict to
\* self._signal_streak (l.109, l.119, l.143, l.189) leaves the returned one
\* as it is from then on.
HoldsStreak(r) == "live" \in DOMAIN r /\ r.live
StreakCounted(r, streak) ==
    IF HoldsStreak(r)
    THEN [r EXCEPT !.value = <<[@[1] EXCEPT !.signal_streak = streak]>>]
    ELSE r
StreakReplaced(r) == IF HoldsStreak(r) THEN [r EXCEPT !.live = FALSE] ELSE r

\* the guards and the streak: the call returns False, or stands before
\* self._trade_counter += 1 with its locals
consider_entry_99(signal, market_question, up_price, down_price, now) ==
    \E a \in {Admit(World, signal, up_price, down_price)} :
        /\ pc = "idle"
        /\ a.w.trade_counter + (IF a.ret THEN 1 ELSE 0) <= MaxTrades
        /\ a.ret \/ a.w.signal_streak.count <= MaxStreak
        /\ Becomes(a.w)
        /\ UNCHANGED issued_ids
        /\ Begins
        /\ IF a.ret
           THEN /\ pc' = "consider_entry:133"
                /\ frame' = <<[market_question |-> market_question,
                               direction |-> a.direction,
                               entry_price |-> a.entry_price,
                               bet_size |-> a.bet_size,
                               shares |-> Shares(a.bet_size, a.entry_price),
                               now |-> now]>>
                /\ entered' = <<World>>
                /\ ret' = IF signal_streak.label = a.direction
                          THEN StreakCounted(ret, a.w.signal_streak)
                          ELSE StreakReplaced(ret)
           ELSE /\ ret' = [op |-> "consider_entry", value |-> <<FALSE>>]
                /\ UNCHANGED <<pc, frame, entered>>

consider_entry_133 ==
    /\ pc = "consider_entry:133"
    /\ Becomes(EnterCount(World))
    /\ pc' = "consider_entry:134"
    /\ Pending
    /\ UNCHANGED reader

consider_entry_134 ==
    /\ pc = "consider_entry:134"
    /\ Becomes(EnterTrade(World, frame[1].market_question, frame[1].direction,
                          frame[1].entry_price, frame[1].shares,
                          frame[1].bet_size, frame[1].now))
    /\ issued_ids' = Append(issued_ids, trade_counter)
    /\ pc' = "consider_entry:143"
    /\ UNCHANGED <<ret, frame, entered>>
    /\ UNCHANGED reader

consider_entry_143 ==
    /\ pc = "consider_entry:143"
    /\ Becomes(EnterResetStreak(World))
    /\ pc' = "consider_entry:146"
    /\ ret' = StreakReplaced(ret)
    /\ UNCHANGED <<issued_ids, frame, entered>>
    /\ UNCHANGED reader

consider_entry_146 ==
    /\ pc = "consider_entry:146"
    /\ Becomes(EnterSave(World))
    /\ pc' = "idle"
    /\ frame' = None
    /\ entered' = None
    /\ ret' = [op |-> "consider_entry", value |-> <<TRUE>>]
    /\ UNCHANGED issued_ids
    /\ UNCHANGED reader

\* the guard, won and exit_price, and the first line of Trade.close
close_trade_170(up_price, down_price, force_winner) ==
    /\ pc = "idle"
    /\ IF NoActiveTrade(World)
       THEN /\ Becomes(ReturnNone(World).w)
            /\ ret' = [op |-> "close_trade", value |-> None]
            /\ UNCHANGED <<pc, issued_ids, frame, entered>>
       ELSE LET won == Won(active_trade[1], up_price, down_price,
                           force_winner)
            IN  /\ Becomes(CloseExit(World, won))
                /\ pc' = IF won THEN "Trade.close:47" ELSE "Trade.close:50"
                /\ entered' = <<World>>
                /\ UNCHANGED <<issued_ids, ret, frame>>
    /\ Begins

Trade_close_47 ==
    /\ pc = "Trade.close:47"
    /\ Becomes(ClosePnl(World, TRUE))
    /\ pc' = "Trade.close:48"
    /\ Pending
    /\ UNCHANGED reader

Trade_close_48 ==
    /\ pc = "Trade.close:48"
    /\ Becomes(CloseStatus(World, TRUE))
    /\ pc' = "close_trade:186"
    /\ Pending
    /\ UNCHANGED reader

Trade_close_50 ==
    /\ pc = "Trade.close:50"
    /\ Becomes(ClosePnl(World, FALSE))
    /\ pc' = "Trade.close:51"
    /\ Pending
    /\ UNCHANGED reader

Trade_close_51 ==
    /\ pc = "Trade.close:51"
    /\ Becomes(CloseStatus(World, FALSE))
    /\ pc' = "close_trade:186"
    /\ Pending
    /\ UNCHANGED reader

close_trade_186 ==
    /\ pc = "close_trade:186"
    /\ Becomes(CloseSettle(World))
    /\ pc' = "close_trade:187"
    /\ Pending
    /\ UNCHANGED reader

close_trade_187 ==
    /\ pc = "close_trade:187"
    /\ Becomes(CloseAppend(World))
    /\ pc' = "close_trade:188"
    /\ Pending
    /\ UNCHANGED reader

close_trade_188 ==
    /\ pc = "close_trade:188"
    /\ Becomes(CloseClear(World))
    /\ pc' = "close_trade:189"
    /\ Pending
    /\ UNCHANGED reader

close_trade_189 ==
    /\ pc = "close_trade:189"
    /\ Becomes(CloseResetStreak(World))
    /\ pc' = "close_trade:193"
    /\ ret' = StreakReplaced(ret)
    /\ UNCHANGED <<issued_ids, frame, entered>>
    /\ UNCHANGED reader

close_trade_193 ==
    /\ pc = "close_trade:193"
    /\ Becomes(CloseSnapshot(World))
    /\ pc' = "close_trade:197"
    /\ Pending
    /\ UNCHANGED reader

close_trade_197 ==
    /\ pc = "close_trade:197"
    /\ Becomes(CloseSaveTrade(World))
    /\ pc' = "close_trade:198"
    /\ Pending
    /\ UNCHANGED reader

close_trade_198 ==
    /\ pc = "close_trade:198"
    /\ Becomes(CloseSaveState(World))
    /\ pc' = "idle"
    /\ entered' = None
    /\ ret' = [op |-> "close_trade", value |-> <<Last(closed_trades)>>]
    /\ UNCHANGED <<issued_ids, frame>>
    /\ UNCHANGED reader

cancel_active_trade_207 ==
    /\ pc = "idle"
    /\ IF NoActiveTrade(World)
       THEN /\ Becomes(ReturnNone(World).w)
            /\ ret' = [op |-> "cancel_active_trade", value |-> None]
            /\ UNCHANGED <<pc, issued_ids, frame, entered>>
       ELSE /\ Becomes(CancelMark(World))
            /\ pc' = "cancel_active_trade:210"
            /\ entered' = <<World>>
            /\ UNCHANGED <<issued_ids, ret, frame>>
    /\ Begins

cancel_active_trade_210 ==
    /\ pc = "cancel_active_trade:210"
    /\ Becomes(CancelAppend(World))
    /\ pc' = "cancel_active_trade:212"
    /\ Pending
    /\ UNCHANGED reader

cancel_active_trade_212 ==
    /\ pc = "cancel_active_trade:212"
    /\ Becomes(CancelSaveTrade(World))
    /\ pc' = "cancel_active_trade:213"
    /\ Pending
    /\ UNCHANGED reader

cancel_active_trade_213 ==
    /\ pc = "cancel_active_trade:213"
    /\ Becomes(CancelSaveState(World))
    /\ pc' = "cancel_active_trade:217"
    /\ Pending
    /\ UNCHANGED reader

cancel_active_trade_217 ==
    /\ pc = "cancel_active_trade:217"
    /\ Becomes(CancelClear(World))
    /\ pc' = "idle"
    /\ entered' = None
    /\ ret' = [op |-> "cancel_active_trade", value |-> None]
    /\ UNCHANGED <<issued_ids, frame>>
    /\ UNCHANGED reader

Next ==
    \/ \E signal \in Signals, market_question \in Markets,
          quote \in EntryQuotes, now \in Clock :
          consider_entry_99(signal, market_question, quote[1], quote[2], now)
    \/ consider_entry_133
    \/ consider_entry_134
    \/ consider_entry_143
    \/ consider_entry_146
    \/ \E quote \in CloseQuotes, force_winner \in ForceWinner :
          close_trade_170(quote[1], quote[2], force_winner)
    \/ Trade_close_47
    \/ Trade_close_48
    \/ Trade_close_50
    \/ Trade_close_51
    \/ close_trade_186
    \/ close_trade_187
    \/ close_trade_188
    \/ close_trade_189
    \/ close_trade_193
    \/ close_trade_197
    \/ close_trade_198
    \/ cancel_active_trade_207
    \/ cancel_active_trade_210
    \/ cancel_active_trade_212
    \/ cancel_active_trade_213
    \/ cancel_active_trade_217

Spec == Init /\ [][Next]_vars

SpecAnyCapital == InitAnyCapital /\ [][Next]_vars

-----------------------------------------------------------------------------
(* db.load_state, and restore on what it returned.  load_state is called by *)
(* start-up, which hands its result to restore, or by any other caller.     *)

\* the two SELECTs of load_state are not one read: the portfolio_state row
\* is the one stored when l.131 runs
load_state_131 ==
    /\ pc = "load_state:131"
    /\ Becomes(World)
    /\ \E snapshot \in {LoadSnapshot(World)} :
          IF "raised" \in DOMAIN snapshot
          THEN /\ pc' = "idle"
               /\ frame' = None
               /\ ret' = [op |-> "load_state", value |-> <<snapshot>>]
          ELSE /\ pc' = "load_state:153"
               /\ frame' = <<[caller |-> frame[1].caller,
                              snapshot |-> snapshot]>>
               /\ UNCHANGED ret
    /\ UNCHANGED <<issued_ids, entered>>
    /\ UNCHANGED reader

\* the trades are those stored when l.153 runs; the dict is returned
load_state_153 ==
    /\ pc = "load_state:153"
    /\ Becomes(World)
    /\ \E saved \in {Loaded(frame[1].snapshot, LoadClosed(World))} :
          IF frame[1].caller = "start-up"
          THEN /\ pc' = "restore:85"
               /\ frame' = <<[saved |-> saved]>>
               /\ UNCHANGED ret
          ELSE /\ pc' = "idle"
               /\ frame' = None
               /\ ret' = [op |-> "load_state", value |-> <<saved>>]
    /\ UNCHANGED <<issued_ids, entered>>
    /\ UNCHANGED reader

restore_85 ==
    /\ pc = "restore:85"
    /\ Becomes(RestoreCapital(World, frame[1].saved))
    /\ pc' = "restore:86"
    /\ Pending
    /\ UNCHANGED reader

restore_86 ==
    /\ pc = "restore:86"
    /\ Becomes(RestoreInitialCapital(World, frame[1].saved))
    /\ pc' = "restore:87"
    /\ Pending
    /\ UNCHANGED reader

restore_87 ==
    /\ pc = "restore:87"
    /\ Becomes(RestorePnlHistory(World, frame[1].saved))
    /\ pc' = "restore:88"
    /\ Pending
    /\ UNCHANGED reader

restore_88 ==
    /\ pc = "restore:88"
    /\ Becomes(RestoreCounter(World, frame[1].saved))
    /\ pc' = "restore:89"
    /\ Pending
    /\ UNCHANGED reader

\* the last line of restore; start-up is over, and ret keeps where the
\* process before this one had stopped
restore_89 ==
    /\ pc = "restore:89"
    /\ Becomes(RestoreClosed(World, frame[1].saved))
    /\ pc' = "idle"
    /\ frame' = None
    /\ ret' = [op |-> "restore", value |-> ret.value]
    /\ UNCHANGED <<issued_ids, entered>>
    /\ UNCHANGED reader

-----------------------------------------------------------------------------
(* The process stops, at any line, and is started again on the same         *)
(* database: the new process constructs a Portfolio and calls               *)
(* restore(db.load_state()) on it.                                          *)

Restarts ==
    Cardinality({i \in 1..Len(db_calls) : db_calls[i][1] = "load_state"})

\* the process stops where it stands; the new one has constructed its
\* Portfolio, which has issued no id yet, and called db.load_state()
stop ==
    /\ Restarts < MaxRestarts
    /\ Becomes(Portfolio(INITIAL_CAPITAL, TRADE_PCT, db_trades, db_state,
                         db_now, Append(db_calls, <<"load_state", 0, "">>)))
    /\ pc' = "load_state:131"
    /\ frame' = <<[caller |-> "start-up"]>>
    /\ entered' = None
    /\ issued_ids' = <<>>
    /\ ret' = [op |-> "stop", value |-> <<pc>>]
    /\ UNCHANGED reader

\* the inputs of the runs with restarts: UP signals that pass the
\* confidence gate, one pair of prices, the outcome given by force_winner
RestartSignals == {s \in Signals : s.label = "UP" /\ s.confidence = 70}
RestartQuotes == {<<4000, 4000>>}
RestartOutcomes == {<<TRUE>>, <<FALSE>>}

NextRestart ==
    \/ \E signal \in RestartSignals, market_question \in Markets,
          quote \in RestartQuotes, now \in Clock :
          consider_entry_99(signal, market_question, quote[1], quote[2], now)
    \/ consider_entry_133
    \/ consider_entry_134
    \/ consider_entry_143
    \/ consider_entry_146
    \/ \E quote \in RestartQuotes, force_winner \in RestartOutcomes :
          close_trade_170(quote[1], quote[2], force_winner)
    \/ Trade_close_47
    \/ Trade_close_48
    \/ Trade_close_50
    \/ Trade_close_51
    \/ close_trade_186
    \/ close_trade_187
    \/ close_trade_188
    \/ close_trade_189
    \/ close_trade_193
    \/ close_trade_197
    \/ close_trade_198
    \/ cancel_active_trade_207
    \/ cancel_active_trade_210
    \/ cancel_active_trade_212
    \/ cancel_active_trade_213
    \/ cancel_active_trade_217
    \/ stop
    \/ load_state_131
    \/ load_state_153
    \/ restore_85
    \/ restore_86
    \/ restore_87
    \/ restore_88
    \/ restore_89

SpecRestart == Init /\ [][NextRestart]_vars

-----------------------------------------------------------------------------
(* The driving loop with a reader (the server's stats endpoint) in a thread *)
(* of its own: the lines of its stats or get_unrealized fall between any    *)
(* two lines of the driving loop, and the lines of the driving loop between *)
(* any two of its own.                                                      *)

StepSignals == {s \in Signals : s.label \in {"UP", "NEUTRAL"}
                                /\ s.confidence \in {64, 70}}
StepQuotes == {<<4000, 100>>, <<100, 4000>>}
ReadQuotes == {<<5000, 4000>>}

\* a line of the reader: nothing changes but its own position and locals
\* and, when the call is over, what it hands back
ReaderTakes(r) ==
    /\ rpc' = r.pc
    /\ rframe' = r.f
    /\ ret' = IF r.ret = None THEN ret
              ELSE IF r.ret[1].op = "stats"
                      /\ "raised" \notin DOMAIN r.ret[1].value[1]
              THEN [op |-> "stats", value |-> r.ret[1].value, live |-> TRUE]
              ELSE r.ret[1]
    /\ overlap' = IF r.pc = "idle" THEN 0 ELSE overlap
    /\ Becomes(World)
    /\ UNCHANGED <<pc, issued_ids, frame, entered>>

\* the reader calls stats and executes its first lines (l.222-223)
stats(up_price, down_price) ==
    /\ rpc = "idle"
    /\ reads < MaxReads
    /\ reads' = reads + 1
    /\ ReaderTakes(ReaderLine(World, "stats:223",
                              ReaderCall("stats", up_price, down_price)))

\* the reader calls get_unrealized on its own and executes its first line
get_unrealized(up_price, down_price) ==
    /\ rpc = "idle"
    /\ reads < MaxReads
    /\ reads' = reads + 1
    /\ ReaderTakes(ReaderLine(World, "get_unrealized:157",
                              ReaderCall("get_unrealized", up_price,
                                         down_price)))

\* the reader executes the line it stands before
ReaderAt(line) ==
    /\ rpc = line
    /\ reads' = reads
    /\ ReaderTakes(ReaderLine(World, line, rframe[1]))

stats_224 == ReaderAt("stats:224")
stats_228 == ReaderAt("stats:228")
get_unrealized_157 == ReaderAt("get_unrealized:157")
current_price_for_trade_152 == ReaderAt("current_price_for_trade:152")
current_price_for_trade_154 == ReaderAt("current_price_for_trade:154")
get_unrealized_160 == ReaderAt("get_unrealized:160")
stats_231 == ReaderAt("stats:231")
stats_231_if == ReaderAt("stats:231:if")
stats_231_bet_size == ReaderAt("stats:231:bet_size")
stats_234 == ReaderAt("stats:234")
stats_235 == ReaderAt("stats:235")
to_dict_63 == ReaderAt("to_dict:63")
to_dict_64 == ReaderAt("to_dict:64")
to_dict_65 == ReaderAt("to_dict:65")
stats_245 == ReaderAt("stats:245")
stats_246 == ReaderAt("stats:246")
stats_251 == ReaderAt("stats:251")
stats_252 == ReaderAt("stats:252")
stats_255 == ReaderAt("stats:255")
stats_257 == ReaderAt("stats:257")
stats_258 == ReaderAt("stats:258")
stats_260 == ReaderAt("stats:260")
stats_262 == ReaderAt("stats:262")
stats_263 == ReaderAt("stats:263")

NextSteps ==
    \/ \E signal \in StepSignals, market_question \in Markets,
          quote \in StepQuotes, now \in Clock :
          consider_entry_99(signal, market_question, quote[1], quote[2], now)
    \/ consider_entry_133
    \/ consider_entry_134
    \/ consider_entry_143
    \/ consider_entry_146
    \/ \E quote \in ReadQuotes, force_winner \in ForceWinner :
          close_trade_170(quote[1], quote[2], force_winner)
    \/ Trade_close_47
    \/ Trade_close_48
    \/ Trade_close_50
    \/ Trade_close_51
    \/ close_trade_186
    \/ close_trade_187
    \/ close_trade_188
    \/ close_trade_189
    \/ close_trade_193
    \/ close_trade_197
    \/ close_trade_198
    \/ cancel_active_trade_207
    \/ cancel_active_trade_210
    \/ cancel_active_trade_212
    \/ cancel_active_trade_213
    \/ cancel_active_trade_217
    \/ \E quote \in ReadQuotes : stats(quote[1], quote[2])
    \/ \E quote \in ReadQuotes : get_unrealized(quote[1], quote[2])
    \/ stats_224
    \/ stats_228
    \/ get_unrealized_157
    \/ current_price_for_trade_152
    \/ current_price_for_trade_154
    \/ get_unrealized_160
    \/ stats_231
    \/ stats_231_if
    \/ stats_231_bet_size
    \/ stats_234
    \/ stats_235
    \/ to_dict_63
    \/ to_dict_64
    \/ to_dict_65
    \/ stats_245
    \/ stats_246
    \/ stats_251
    \/ stats_252
    \/ stats_255
    \/ stats_257
    \/ stats_258
    \/ stats_260
    \/ stats_262
    \/ stats_263

SpecSteps == Init /\ [][NextSteps]_vars

-----------------------------------------------------------------------------
(* The persistence module called on its own, as app start-up and any other  *)
(* caller may: db.save_trade, db.save_portfolio_state, db.load_state.  The  *)
(* saves may fall between the two reads of a load_state in progress.        *)

\* the rows a caller may save: a trade as entered, resolved and cancelled
StoredTrades ==
    LET t1 == Trade(1, "SOL-5m", "UP", 4000, 50000, 20000, "12:00:00")
        t2 == Trade(2, "SOL-5m", "DOWN", 4000, 50000, 20000, "12:00:00")
    IN  {t1, Trade_close(t1, TRUE, WIN_EXIT_PRICE), Cancelled(t2)}

call_save_trade(trade) ==
    /\ Len(db_calls) < MaxDbCalls
    /\ Becomes(save_trade(World, trade))
    /\ ret' = [op |-> "save_trade", value |-> <<trade>>]
    /\ UNCHANGED <<pc, issued_ids, frame, entered>>
    /\ UNCHANGED reader

call_save_portfolio_state(cap, initial, history, counter) ==
    /\ Len(db_calls) < MaxDbCalls
    /\ Becomes(save_portfolio_state(World, cap, initial, history, counter))
    /\ ret' = [op |-> "save_portfolio_state",
               value |-> <<cap, initial, history, counter>>]
    /\ UNCHANGED <<pc, issued_ids, frame, entered>>
    /\ UNCHANGED reader

\* db.load_state() is called: nothing is read yet
call_load_state ==
    /\ pc = "idle"
    /\ Len(db_calls) < MaxDbCalls
    /\ db_calls' = Append(db_calls, <<"load_state", 0, "">>)
    /\ pc' = "load_state:131"
    /\ frame' = <<[caller |-> "call"]>>
    /\ UNCHANGED <<initial_capital, capital, trade_pct, active_trade,
                   closed_trades, pnl_history, trade_counter, signal_streak,
                   db_trades, db_state, db_now, issued_ids, entered, ret,
                   reader>>

\* time passes between two calls
clock_tick ==
    /\ db_now + 1 \in DbClock
    /\ db_now' = db_now + 1
    /\ UNCHANGED <<initial_capital, capital, trade_pct, active_trade,
                   closed_trades, pnl_history, trade_counter, signal_streak,
                   db_trades, db_state, db_calls, pc, issued_ids, frame,
                   entered, ret, reader>>

NextDb ==
    \/ \E trade \in StoredTrades : call_save_trade(trade)
    \/ \E snap \in Snapshots :
          call_save_portfolio_state(snap[1], snap[2], snap[3], snap[4])
    \/ call_load_state
    \/ load_state_131
    \/ load_state_153
    \/ clock_tick

SpecDb == Init /\ [][NextDb]_vars

-----------------------------------------------------------------------------
(* Properties *)

UpLabels == {"UP", "STRONG UP"}
DownLabels == {"DOWN", "STRONG DOWN"}
DirectionalSignals == {s \in Signals : s.label \in UpLabels \cup DownLabels}
OtherSignals == Signals \ DirectionalSignals
SignalDirection(s) == IF s.label \in UpLabels THEN "UP" ELSE "DOWN"
QuoteFor(direction, quote) == IF direction = "UP" THEN quote[1] ELSE quote[2]

\* A call's contract relates the state in which the call is made to the
\* state in which it returns, and a claim about the states of the Portfolio
\* is one about the states between two calls of the single driving loop;
\* the states inside a call are those a concurrent reader sees (C23, C29)
\* and those a stop of the process leaves behind (C25, C26).

\* no call is in progress
AtRest == pc = "idle"

\* the Portfolio and the tables as the call that returns in this step found
\* them
Before == IF pc = "idle" THEN World ELSE entered[1]

\* a step in which the named call returns
Returns(op) == pc' = "idle" /\ ret'.op = op

\* a step in which a close_trade that resolved the active trade returns
ResolvingClose == Returns("close_trade") /\ Before.active_trade # None

\* a step in which a consider_entry that opened a trade returns
Entering == Returns("consider_entry") /\ ret'.value = <<TRUE>>

\* a step in which a cancel_active_trade that cancelled the active trade
\* returns
Cancelling == Returns("cancel_active_trade") /\ Before.active_trade # None

\* C1 (Conservation): every close_trade that resolves the active trade
\* appends it as WIN or LOSS; for WIN pnl = shares - bet_size and
\* capital_after = capital_before + bet_size + pnl; for LOSS pnl = -bet_size
\* and capital_after = capital_before.
C1_Conservation ==
    [][ResolvingClose =>
         LET open == Before.active_trade[1]
             t == Last(closed_trades')
         IN  /\ t.id = open.id /\ t.bet_size = open.bet_size
             /\ t.shares = open.shares
             /\ t.status \in {"WIN", "LOSS"}
             /\ t.status = "WIN" =>
                  /\ t.pnl = <<open.shares - open.bet_size>>
                  /\ capital' = Before.capital + open.bet_size + t.pnl[1]
             /\ t.status = "LOSS" =>
                  /\ t.pnl = <<0 - open.bet_size>>
                  /\ capital' = Before.capital]_vars

\* a winning and a losing resolution have both happened
C1_Witness ==
    /\ \E i \in 1..Len(closed_trades) : closed_trades[i].status = "WIN"
    /\ \E i \in 1..Len(closed_trades) : closed_trades[i].status = "LOSS"

\* C2 (Scenario, WIN path): from capital 100 and trade_pct 0.02, a trade
\* entered UP at 0.40 has bet_size 2.00 and shares 5.0; once it is resolved
\* as won its pnl is 3.0, capital is 103.0 and pnl_history is [0.0, 3.0].
C2_ScenarioWin ==
    (/\ AtRest
     /\ initial_capital = INITIAL_CAPITAL /\ trade_pct = TRADE_PCT
     /\ active_trade = None /\ Len(closed_trades) = 1
     /\ closed_trades[1].direction = "UP"
     /\ closed_trades[1].entry_price = 4000
     /\ closed_trades[1].status = "WIN")
    => /\ closed_trades[1].bet_size = 20000
       /\ closed_trades[1].shares = 50000
       /\ closed_trades[1].pnl = <<30000>>
       /\ capital = 1030000
       /\ pnl_history = <<0, 30000>>

\* C3 (At most one active trade): active_trade is empty or one Trade, and
\* while it is non-empty consider_entry returns false for every signal and
\* every price pair and changes nothing (active_trade, capital,
\* trade_counter, closed_trades, pnl_history, streak, tables).
C3_AtMostOneActive ==
    /\ Len(active_trade) <= 1
    /\ (AtRest /\ active_trade # None) =>
         \A signal \in Signals, market_question \in Markets,
            quote \in EntryQuotes, now \in Clock :
            LET r == ConsiderEntry(World, signal, market_question, quote[1],
                                   quote[2], now)
            IN  r.ret = FALSE /\ r.w = World

\* consider_entry has been called, and refused, while a trade is active
C3_Witness ==
    /\ AtRest
    /\ active_trade # None
    /\ ret = [op |-> "consider_entry", value |-> <<FALSE>>]

\* C4 (Streak gate): with no active trade, capital >= 1.0 and a side price
\* > 0.01, a directional signal opens a trade exactly when the streak count
\* updated by that signal is >= 4 and its confidence is >= 65; so whatever the
\* confidence, no trade is opened by the 1st, 2nd or 3rd signal of a run
\* that starts from an empty streak, and the 4th opens one iff its
\* confidence is >= 65.
C4_StreakGate ==
    (AtRest /\ active_trade = None /\ capital >= MIN_CAPITAL) =>
      \A signal \in DirectionalSignals, market_question \in Markets,
         quote \in EntryQuotes, now \in Clock :
         LET direction == SignalDirection(signal)
             updated == IF signal_streak.label = direction
                        THEN signal_streak.count + 1 ELSE 1
             r == ConsiderEntry(World, signal, market_question, quote[1],
                                quote[2], now)
         IN  QuoteFor(direction, quote) > MIN_ENTRY_PRICE =>
               /\ r.ret = (updated >= 4 /\ signal.confidence >= 65)
               /\ r.ret = (r.w.active_trade # None)
               /\ updated <= 3 => r.w.active_trade = None
               /\ signal_streak = EmptyStreak =>
                    \A fourth \in DirectionalSignals :
                       SignalDirection(fourth) = direction =>
                         LET r2 == ConsiderEntry(r.w, signal, market_question,
                                                 quote[1], quote[2], now)
                             r3 == ConsiderEntry(r2.w, signal, market_question,
                                                 quote[1], quote[2], now)
                             r4 == ConsiderEntry(r3.w, fourth, market_question,
                                                 quote[1], quote[2], now)
                         IN  /\ ~r.ret /\ ~r2.ret /\ ~r3.ret
                             /\ r4.ret = (fourth.confidence >= 65)
                             /\ r4.ret = (r4.w.active_trade # None)

\* a trade has just been opened
C4_Witness ==
    /\ AtRest
    /\ active_trade # None
    /\ ret = [op |-> "consider_entry", value |-> <<TRUE>>]

\* C5 as stated (Non-directional reset): whenever it is called, a
\* consider_entry with a non-directional label returns false and leaves the
\* streak {null, 0}, and a following directional signal starts a fresh count
\* of 1.
C5_ResetThenFresh ==
    AtRest =>
    \A other \in OtherSignals, signal \in DirectionalSignals,
       market_question \in Markets, quote \in EntryQuotes, now \in Clock :
       LET r1 == ConsiderEntry(World, other, market_question, quote[1],
                               quote[2], now)
           r2 == ConsiderEntry(r1.w, signal, market_question, quote[1],
                               quote[2], now)
       IN  /\ r1.ret = FALSE
           /\ r1.w.signal_streak = EmptyStreak
           /\ r2.w.signal_streak =
                [label |-> SignalDirection(signal), count |-> 1]

\* C5 amended: whenever it is called, a consider_entry with a
\* non-directional label returns false and leaves the streak {null, 0}; a
\* following directional signal starts a fresh count of 1 provided no trade
\* is active and capital >= 1.0 (otherwise the streak stays {null, 0}).
C5_ResetThenFreshIfTracking ==
    AtRest =>
    \A other \in OtherSignals, signal \in DirectionalSignals,
       market_question \in Markets, quote \in EntryQuotes, now \in Clock :
       LET r1 == ConsiderEntry(World, other, market_question, quote[1],
                               quote[2], now)
           r2 == ConsiderEntry(r1.w, signal, market_question, quote[1],
                               quote[2], now)
       IN  /\ r1.ret = FALSE
           /\ r1.w.signal_streak = EmptyStreak
           /\ r2.ret = FALSE
           /\ r2.w.signal_streak =
                IF active_trade = None /\ capital >= MIN_CAPITAL
                THEN [label |-> SignalDirection(signal), count |-> 1]
                ELSE EmptyStreak

\* a non-directional signal has been refused and has left the streak empty
\* (before any trade is opened only such a call returns false with an empty
\* streak)
C5_Witness ==
    /\ AtRest
    /\ ret = [op |-> "consider_entry", value |-> <<FALSE>>]
    /\ signal_streak = EmptyStreak
    /\ active_trade = None
    /\ trade_counter = 0

\* C6 (Streak update rule): for a directional signal that passes the
\* active-trade and capital guards, with STRONG UP counted as UP and STRONG
\* DOWN as DOWN, the count grows by exactly 1 when the direction equals the
\* tracked label and the streak becomes {direction, 1} otherwise; the call
\* either returns false leaving that streak, or opens a trade on a count that
\* reached 4 in the tracked direction.
C6_StreakUpdate ==
    (AtRest /\ active_trade = None /\ capital >= MIN_CAPITAL) =>
      \A signal \in DirectionalSignals, market_question \in Markets,
         quote \in EntryQuotes, now \in Clock :
         LET direction == SignalDirection(signal)
             expected == IF signal_streak.label = direction
                         THEN [label |-> direction,
                               count |-> signal_streak.count + 1]
                         ELSE [label |-> direction, count |-> 1]
             r == ConsiderEntry(World, signal, market_question, quote[1],
                                quote[2], now)
         IN  IF r.ret
             THEN /\ expected.count >= 4
                  /\ signal_streak.label = direction
                  /\ r.w.active_trade[1].direction = direction
             ELSE r.w.signal_streak = expected

\* a streak of three signals of one direction has been counted
C6_Witness ==
    /\ AtRest
    /\ signal_streak.count = 3
    /\ ret = [op |-> "consider_entry", value |-> <<FALSE>>]

\* C7 (Monotonic identifiers): each successful entry assigns an id greater
\* than every id assigned before, so no two trades share an id; trade_counter
\* never decreases and only a successful entry changes it (in its line
\* self._trade_counter += 1).
C7_MonotonicIds ==
    /\ [](\A i, j \in 1..Len(issued_ids) :
            i < j => issued_ids[i] < issued_ids[j])
    /\ [][/\ trade_counter' >= trade_counter
          /\ trade_counter' # trade_counter => pc = "consider_entry:133"
          /\ Entering =>
               /\ Last(issued_ids') = active_trade'[1].id
               /\ \A i \in 1..(Len(issued_ids') - 1) :
                    active_trade'[1].id > issued_ids'[i]
               /\ \A i \in 1..Len(closed_trades') :
                    active_trade'[1].id > closed_trades'[i].id
               /\ trade_counter' > Before.trade_counter
          /\ (pc' = "idle" /\ ~Entering) =>
               trade_counter' = Before.trade_counter]_vars

\* two trades have been created, the first of them closed or cancelled
C7_Witness == AtRest /\ Len(issued_ids) = 2 /\ Len(closed_trades) >= 1

\* C8 (Round trip): a fresh Portfolio on which restore(load_state()) is
\* called has the capital, pnl_history, trade_counter and closed trades of
\* the running Portfolio.
C8_RoundTrip ==
    AtRest =>
    LET restored == Restart(World)
    IN  /\ restored.capital = capital
        /\ restored.pnl_history = pnl_history
        /\ restored.trade_counter = trade_counter
        /\ restored.closed_trades = closed_trades

HeldTrades ==
    {active_trade[i] : i \in 1..Len(active_trade)}
        \cup {closed_trades[i] : i \in 1..Len(closed_trades)}

\* C9 as stated (Trade field invariant): between two calls every Trade held
\* by the Portfolio has status = OPEN iff exit_price is null, and exit_price
\* null iff pnl null.
C9_OpenIffNoExit ==
    AtRest =>
    \A t \in HeldTrades :
       /\ (t.status = "OPEN") <=> (t.exit_price = None)
       /\ (t.exit_price = None) <=> (t.pnl = None)

\* C9 amended: between two calls every Trade held by the Portfolio has
\* status OPEN or CANCELLED iff exit_price is null, and exit_price null iff
\* pnl null.
C9_UnresolvedIffNoExit ==
    AtRest =>
    \A t \in HeldTrades :
       /\ (t.status \in {"OPEN", "CANCELLED"}) <=> (t.exit_price = None)
       /\ (t.exit_price = None) <=> (t.pnl = None)

\* the Portfolio holds a cancelled trade and a trade resolved WIN or LOSS
C9_Witness ==
    /\ AtRest
    /\ \E t \in HeldTrades : t.status = "CANCELLED"
    /\ \E t \in HeldTrades : t.status \in {"WIN", "LOSS"}

\* C10 (Single resolution, append-only history): between two calls the
\* active trade is OPEN; every closed trade is WIN, LOSS or CANCELLED and
\* appears once; a line either leaves closed_trades alone or is the append
\* of close_trade or cancel_active_trade, which puts the active trade, no
\* longer OPEN, at the end; such a call returns with active_trade cleared
\* and closed_trades longer by that one trade, every earlier element keeping
\* its place and its fields, and every other call returns with closed_trades
\* as it found it.
C10_SingleResolution ==
    /\ [](/\ (AtRest /\ active_trade # None) =>
               active_trade[1].status = "OPEN"
          /\ \A i \in 1..Len(closed_trades) :
               closed_trades[i].status \in {"WIN", "LOSS", "CANCELLED"}
          /\ \A i, j \in 1..Len(closed_trades) :
               i < j => closed_trades[i].id # closed_trades[j].id
          /\ \A t \in HeldTrades :
               active_trade # None /\ t # active_trade[1]
                  => t.id # active_trade[1].id)
    /\ [][/\ \/ closed_trades' = closed_trades
             \/ /\ pc \in {"close_trade:187", "cancel_active_trade:210"}
                /\ active_trade # None
                /\ active_trade[1].status # "OPEN"
                /\ closed_trades' = Append(closed_trades, active_trade[1])
          /\ (ResolvingClose \/ Cancelling) =>
               /\ active_trade' = None
               /\ Len(closed_trades') = Len(Before.closed_trades) + 1
               /\ SubSeq(closed_trades', 1, Len(Before.closed_trades))
                     = Before.closed_trades
               /\ Last(closed_trades').id = Before.active_trade[1].id
               /\ Last(closed_trades').status # "OPEN"
          /\ (pc' = "idle" /\ ~(ResolvingClose \/ Cancelling)) =>
               closed_trades' = Before.closed_trades]_vars

\* two trades have been resolved, one by close_trade and one by cancellation
C10_Witness ==
    /\ AtRest
    /\ Len(closed_trades) = 2
    /\ closed_trades[1].status # closed_trades[2].status
    /\ \E i \in 1..2 : closed_trades[i].status = "CANCELLED"

\* the number of trades of a list resolved as WIN or LOSS
ResolvedCount(list) ==
    Cardinality({i \in 1..Len(list) : list[i].status \in {"WIN", "LOSS"}})

\* C11 (pnl_history length): pnl_history[0] = 0.0 and, between two calls,
\* len(pnl_history) = 1 + the number of closed trades with status WIN or
\* LOSS; a resolving close_trade appends exactly one entry (in its line
\* self.pnl_history.append), and every other call (cancel_active_trade,
\* consider_entry, a refused close_trade) appends none.
C11_HistoryLength ==
    /\ [](/\ pnl_history[1] = 0
          /\ AtRest => Len(pnl_history) = 1 + ResolvedCount(closed_trades))
    /\ [][/\ pnl_history' # pnl_history => pc = "close_trade:193"
          /\ pc' = "idle" =>
               IF ResolvingClose
               THEN /\ Len(pnl_history') = Len(Before.pnl_history) + 1
                    /\ SubSeq(pnl_history', 1, Len(Before.pnl_history))
                          = Before.pnl_history
               ELSE pnl_history' = Before.pnl_history]_vars

\* one trade has been resolved and another cancelled: two closed trades,
\* one snapshot after the initial 0.0
C11_Witness ==
    /\ AtRest
    /\ Len(pnl_history) = 2
    /\ Len(closed_trades) = 2
    /\ ResolvedCount(closed_trades) = 1

\* C12 (pnl_history is the cumulative realized P&L): after every resolving
\* close_trade the entry just appended equals capital - initial_capital and
\* equals the sum of pnl over the closed trades (stats' realized_pnl).
C12_CumulativeRealized ==
    [][ResolvingClose =>
         /\ Last(pnl_history') = capital' - initial_capital'
         /\ Last(pnl_history') = realized_pnl(closed_trades')]_vars

\* the part of C12 the code does keep: the entry is capital - initial_capital
C12_SnapshotIsCapitalDelta ==
    [][ResolvingClose =>
         Last(pnl_history') = capital' - initial_capital']_vars

\* C13 (Cancellation effect): cancel_active_trade with an active trade sets
\* its status to CANCELLED leaving pnl and exit_price null, appends it to
\* closed_trades, clears active_trade, persists the trade and the portfolio
\* snapshot, and leaves capital, initial_capital, pnl_history and
\* trade_counter unchanged.
C13_CancellationEffect ==
    [][Cancelling =>
         LET open == Before.active_trade[1]
             t == Last(closed_trades')
         IN  /\ t = [open EXCEPT !.status = "CANCELLED"]
             /\ t.pnl = None /\ t.exit_price = None
             /\ closed_trades' = Append(Before.closed_trades, t)
             /\ active_trade' = None
             /\ DOMAIN db_trades' = DOMAIN Before.db_trades \cup {open.id}
             /\ TradeOfRow(db_trades'[open.id]) = t
             /\ \A i \in DOMAIN Before.db_trades :
                   i # open.id => db_trades'[i] = Before.db_trades[i]
             /\ db_state' # None
             /\ db_state'[1].capital = capital'
             /\ db_state'[1].initial_capital = initial_capital'
             /\ json_loads(db_state'[1].pnl_history) = pnl_history'
             /\ db_state'[1].trade_counter = trade_counter'
             /\ db_calls' = Before.db_calls \o
                   << <<"save_trade", open.id, "CANCELLED">>,
                      <<"save_portfolio_state", trade_counter', "">> >>
             /\ capital' = Before.capital
             /\ initial_capital' = Before.initial_capital
             /\ pnl_history' = Before.pnl_history
             /\ trade_counter' = Before.trade_counter]_vars

\* the active trade has just been cancelled and written to the tables
C13_Witness ==
    /\ AtRest
    /\ ret.op = "cancel_active_trade"
    /\ active_trade = None
    /\ closed_trades # <<>>
    /\ Last(closed_trades).status = "CANCELLED"
    /\ db_trades[Last(closed_trades).id].status = "CANCELLED"
    /\ Last(db_calls)[1] = "save_portfolio_state"

\* C14 (Streak is empty after every lifecycle transition): immediately
\* after a successful consider_entry, a resolving close_trade and a
\* cancel_active_trade of an active trade the signal streak is {null, 0};
\* between two calls it is {null, 0} for as long as a trade is active.
C14_StreakEmptyAfterTransition ==
    /\ []((AtRest /\ active_trade # None) => signal_streak = EmptyStreak)
    /\ [][(Entering \/ ResolvingClose \/ Cancelling)
            => signal_streak' = EmptyStreak]_vars

\* a second trade has been entered: entry, close or cancel, and entry again
C14_Witness ==
    /\ AtRest
    /\ ret = [op |-> "consider_entry", value |-> <<TRUE>>]
    /\ signal_streak = EmptyStreak
    /\ Len(closed_trades) = 1

\* final prices offered to close_trade around the threshold of one half
ResolutionPrices == {0, 4999, 5000, 10000}

\* C15 (Resolution rule): with force_winner supplied close_trade resolves
\* the trade to that outcome whatever the prices; without it the trade wins
\* iff the price of its held side (up_price for UP, down_price for DOWN) is
\* >= 0.5, whatever the other side's price; exit_price is 1.0 on a win and
\* 0.0 on a loss.
C15_ResolutionRule ==
    (AtRest /\ active_trade # None) =>
      \A up_price \in ResolutionPrices, down_price \in ResolutionPrices,
         force_winner \in ForceWinner :
         LET r == CloseTrade(World, up_price, down_price, force_winner)
             held == IF active_trade[1].direction = "UP" THEN up_price
                     ELSE down_price
             wins == IF force_winner = <<TRUE>> THEN TRUE
                     ELSE IF force_winner = <<FALSE>> THEN FALSE
                     ELSE held >= 5000
         IN  /\ Len(r.ret) = 1
             /\ r.ret[1].id = active_trade[1].id
             /\ r.ret[1].status = IF wins THEN "WIN" ELSE "LOSS"
             /\ r.ret[1].exit_price = <<IF wins THEN 10000 ELSE 0>>

\* a DOWN trade has been resolved as lost
C15_Witness ==
    /\ AtRest
    /\ ret.op = "close_trade"
    /\ ret.value # None
    /\ ret.value[1].direction = "DOWN"
    /\ ret.value[1].status = "LOSS"

\* C16 (Refusal without effect): with no active trade close_trade and
\* cancel_active_trade return none, at once, and change neither a field of
\* the Portfolio nor the tables, and make no call on the persistence module.
C16_RefusalWithoutEffect ==
    /\ []((AtRest /\ active_trade = None) =>
            /\ \A quote \in CloseQuotes, force_winner \in ForceWinner :
                  CloseTrade(World, quote[1], quote[2], force_winner)
                    = [w |-> World, ret |-> None]
            /\ CancelActiveTrade(World) = [w |-> World, ret |-> None])
    /\ [][/\ (/\ AtRest /\ active_trade = None
              /\ Returns("close_trade") \/ Returns("cancel_active_trade"))
             => /\ ret'.value = None
                /\ UNCHANGED <<initial_capital, capital, trade_pct,
                               active_trade, closed_trades, pnl_history,
                               trade_counter, signal_streak, db_trades,
                               db_state, db_now, db_calls, issued_ids>>
          /\ (AtRest /\ active_trade = None) =>
               pc' \in {"idle", "consider_entry:133"}]_vars

\* close_trade has been refused after a trade was cancelled: nothing was
\* written after the cancellation's snapshot
C16_Witness ==
    /\ AtRest
    /\ ret = [op |-> "close_trade", value |-> None]
    /\ active_trade = None
    /\ Len(closed_trades) = 1
    /\ closed_trades[1].status = "CANCELLED"
    /\ Len(db_calls) = 3

\* C17 (Refused entry is a no-op on the ledger): consider_entry returns false
\* when a trade is active, capital < 1.0, the signal is not directional, the
\* streak or confidence gate is not met or the entry price is <= 0.01; a call
\* that returns false leaves capital, active_trade, closed_trades,
\* pnl_history and trade_counter (and the tables) as they were and makes no
\* call on the persistence module; only the signal streak may change.
C17_RefusedEntryNoOp ==
    AtRest =>
    \A signal \in Signals, market_question \in Markets,
       quote \in EntryQuotes, now \in Clock :
       LET r == ConsiderEntry(World, signal, market_question, quote[1],
                              quote[2], now)
           direction == SignalDirection(signal)
           updated == IF signal_streak.label = direction
                      THEN signal_streak.count + 1 ELSE 1
       IN  /\ (\/ active_trade # None
               \/ capital < 10000
               \/ signal \in OtherSignals
               \/ updated < 4
               \/ signal.confidence < 65
               \/ QuoteFor(direction, quote) <= 100) => r.ret = FALSE
           /\ r.ret = FALSE =>
                 /\ [r.w EXCEPT !.signal_streak = signal_streak] = World
                 /\ r.w.db_calls = db_calls

\* consider_entry has been refused on a Portfolio whose capital is below 1.0
C17_Witness ==
    /\ AtRest
    /\ capital < MIN_CAPITAL
    /\ ret = [op |-> "consider_entry", value |-> <<FALSE>>]

\* side prices offered to consider_entry around the minimum of 0.01
BoundaryPrices == {99, 100, 101, 4000}

\* C18 (Entry-price boundary): with the streak and confidence gate satisfied,
\* no active trade and capital >= 1.0, consider_entry refuses when the
\* signalled side's price is <= 0.01 (0.01 itself is refused) and opens a
\* trade at that price when it is > 0.01 (0.0101 is accepted), the side being
\* up_price for an UP signal and down_price for a DOWN signal.
C18_EntryPriceBoundary ==
    (AtRest /\ active_trade = None /\ capital >= MIN_CAPITAL) =>
      \A signal \in DirectionalSignals :
         (/\ signal.confidence >= 65
          /\ signal_streak.label = SignalDirection(signal)
          /\ signal_streak.count + 1 >= 4) =>
           \A up_price \in BoundaryPrices, down_price \in BoundaryPrices,
              market_question \in Markets, now \in Clock :
              LET r == ConsiderEntry(World, signal, market_question,
                                     up_price, down_price, now)
                  side == IF signal.label \in UpLabels THEN up_price
                          ELSE down_price
              IN  /\ r.ret = (side > 100)
                  /\ r.ret = (r.w.active_trade # None)
                  /\ r.ret => /\ r.w.active_trade[1].entry_price = side
                              /\ r.w.active_trade[1].direction
                                    = SignalDirection(signal)

\* a trade has been opened at 0.0101, after an entry at 0.01 was refused
C18_Witness ==
    /\ AtRest
    /\ active_trade # None
    /\ active_trade[1].entry_price = 101
    /\ active_trade[1].direction = "UP"

\* a step that is a call of the named save that repeats the call which
\* returned last, with the same arguments
RepeatedCall(op) ==
    /\ ret.op = op /\ ret'.op = op
    /\ ret'.value = ret.value
    /\ Len(db_calls') = Len(db_calls) + 1
    /\ Last(db_calls')[1] = op

\* what load_state returns apart from the closed trades
LoadedSnapshot(w) ==
    LET st == load_state(w)
    IN  <<st.capital, st.initial_capital, st.pnl_history, st.trade_counter>>

\* C19 (Idempotent persistence): calling save_trade twice with identical
\* field values leaves the stored trades row the same as after one call, and
\* load_state after two identical save_portfolio_state calls returns the same
\* capital, initial_capital, pnl_history and trade_counter as after one.
C19_IdempotentPersistence ==
    [][/\ RepeatedCall("save_trade") => db_trades' = db_trades
       /\ RepeatedCall("save_portfolio_state") =>
             LoadedSnapshot(World') = LoadedSnapshot(World)]_vars

\* the part of C19 the code keeps: a repeated save_trade leaves the ten
\* columns it writes, and so what load_state returns, as they were; a
\* repeated save_portfolio_state leaves what load_state returns as it was
C19_IdempotentButTimestamps ==
    [][(RepeatedCall("save_trade") \/ RepeatedCall("save_portfolio_state"))
         => /\ DOMAIN db_trades' = DOMAIN db_trades
            /\ \A i \in DOMAIN db_trades :
                  TradeOfRow(db_trades'[i]) = TradeOfRow(db_trades[i])
            /\ load_state(World') = load_state(World)]_vars

\* the ids of the stored trades whose status is not OPEN
StoredClosedIds == {i \in DOMAIN db_trades : db_trades[i].status # "OPEN"}

\* a step that is a call of the named save
Saving(op) == Len(db_calls') = Len(db_calls) + 1 /\ Last(db_calls')[1] = op

\* C20 (load_state contents): with no stored snapshot load_state returns
\* capital 100.0, initial_capital 100.0, pnl_history [0.0], trade_counter 0;
\* otherwise the values of the last save_portfolio_state call; in both cases
\* closed_trades is exactly the stored trades whose status is not OPEN, in
\* ascending id order (a trade stored with status OPEN is not returned).
\* Of a load_state in progress the first four are those stored when it reads
\* the portfolio_state table and the trades those stored when it reads the
\* trades table.
C20_LoadStateContents ==
    /\ [](LET st == load_state(World)
              n == Len(st.closed_trades)
          IN  /\ (db_state = None) <=>
                    (\A i \in 1..Len(db_calls) :
                        db_calls[i][1] # "save_portfolio_state")
              /\ db_state = None =>
                    LoadedSnapshot(World) = <<1000000, 1000000, <<0>>, 0>>
              /\ n = Cardinality(StoredClosedIds)
              /\ {st.closed_trades[i].id : i \in 1..n} = StoredClosedIds
              /\ \A i \in 1..n :
                    /\ st.closed_trades[i].status # "OPEN"
                    /\ st.closed_trades[i]
                         = TradeOfRow(db_trades[st.closed_trades[i].id])
              /\ \A i, j \in 1..n :
                    i < j => st.closed_trades[i].id < st.closed_trades[j].id)
    /\ [][IF Saving("save_portfolio_state")
          THEN LoadedSnapshot(World') = ret'.value
          ELSE LoadedSnapshot(World') = LoadedSnapshot(World)]_vars
    /\ [][IF Saving("save_trade")
          THEN LET trade == ret'.value[1]
               IN  /\ DOMAIN db_trades' = DOMAIN db_trades \cup {trade.id}
                   /\ TradeOfRow(db_trades'[trade.id]) = trade
                   /\ \A i \in DOMAIN db_trades :
                         i # trade.id => db_trades'[i] = db_trades[i]
          ELSE db_trades' = db_trades]_vars
    /\ [][/\ (pc = "load_state:131" /\ pc' = "load_state:153") =>
               LET read == frame'[1].snapshot
               IN  <<read.capital, read.initial_capital, read.pnl_history,
                     read.trade_counter>> = LoadedSnapshot(World)
          /\ (pc = "load_state:153" /\ Returns("load_state")) =>
               LET read == frame[1].snapshot
                   st == ret'.value[1]
               IN  /\ <<st.capital, st.initial_capital, st.pnl_history,
                        st.trade_counter>>
                        = <<read.capital, read.initial_capital,
                            read.pnl_history, read.trade_counter>>
                   /\ st.closed_trades
                        = load_state(World).closed_trades]_vars

\* load_state has returned two closed trades that were saved in descending
\* id order, together with a stored snapshot
C20_Witness ==
    /\ AtRest
    /\ ret.op = "load_state"
    /\ db_state # None
    /\ Len(ret.value[1].closed_trades) = 2
    /\ db_calls[1] = <<"save_trade", 2, "CANCELLED">>

\* the step in which restore returns and start-up is over
Restarting == Returns("restore")

\* C21 (Restore frame): restore(snapshot) replaces capital, initial_capital,
\* pnl_history, trade_counter and closed_trades with the snapshot's values
\* and changes nothing else; on a freshly constructed Portfolio the result
\* has no active trade and an empty signal streak, even when an OPEN trade
\* row exists in the store.
C21_RestoreFrame ==
    /\ [](LET saved == load_state(World)
              r == restore(World, saved)
          IN  /\ r.capital = saved.capital
              /\ r.initial_capital = saved.initial_capital
              /\ r.pnl_history = saved.pnl_history
              /\ r.trade_counter = saved.trade_counter
              /\ r.closed_trades = saved.closed_trades
              /\ [r EXCEPT !.capital = capital,
                           !.initial_capital = initial_capital,
                           !.pnl_history = pnl_history,
                           !.trade_counter = trade_counter,
                           !.closed_trades = closed_trades] = World)
    /\ [][Restarting =>
            LET saved == frame[1].saved
            IN  /\ saved = load_state(World')
                /\ capital' = saved.capital
                /\ initial_capital' = saved.initial_capital
                /\ pnl_history' = saved.pnl_history
                /\ trade_counter' = saved.trade_counter
                /\ closed_trades' = saved.closed_trades
                /\ active_trade' = None
                /\ signal_streak' = EmptyStreak
                /\ trade_pct' = TRADE_PCT]_vars

\* the Portfolio has been rebuilt after a stop between two calls, on a store
\* that holds an OPEN trade row and a snapshot with a trade counter
C21_Witness ==
    /\ AtRest
    /\ ret = [op |-> "restore", value |-> <<"idle">>]
    /\ active_trade = None
    /\ trade_counter > 0
    /\ \E i \in DOMAIN db_trades : db_trades[i].status = "OPEN"

\* C22 (Losses can exhaust the ledger): a resolution as LOSS decreases
\* capital by bet_size (so that from capital 100 with trade_pct 0.02 a run
\* of losing trades reaches capital < 1.0, where consider_entry returns
\* false for every signal).
C22_LossDecreasesBalance ==
    [][(ResolvingClose /\ Last(closed_trades').status = "LOSS") =>
         capital' = Before.capital - Before.active_trade[1].bet_size]_vars

\* what the code does in place of C22: no step lowers capital, so from
\* capital 100 no state with capital < 1.0 is reached
C22_CapitalNeverDecreases ==
    /\ [][capital' >= capital]_vars
    /\ [](capital >= MIN_CAPITAL)

\* the number of gateway calls of one kind made for one trade
CallsOf(kind, id, statuses) ==
    Cardinality({i \in DOMAIN db_calls :
                   /\ db_calls[i][1] = kind
                   /\ db_calls[i][2] = id
                   /\ db_calls[i][3] \in statuses})

FinalStatuses == {"WIN", "LOSS", "CANCELLED"}

\* a line of the reader, and a consider_entry that returns false (it does
\* so from its guards, before it has written anything but the streak)
Reading == reader' # reader
RefusedEntry ==
    /\ pc = "idle" /\ pc' = "idle"
    /\ ret' = [op |-> "consider_entry", value |-> <<FALSE>>]

\* C23 (Persistence call protocol): each trade's lifecycle issues exactly
\* one save_trade with status OPEN, inside the successful consider_entry, and
\* exactly one save_trade with the final status followed by exactly one
\* save_portfolio_state, inside close_trade or cancel_active_trade before it
\* returns; save_portfolio_state is never called at entry, and refused
\* entries, stats and get_unrealized make no gateway call.
C23_CallProtocol ==
    /\ [][\/ db_calls' = db_calls
          \/ /\ pc = "consider_entry:146"
             /\ ret' = [op |-> "consider_entry", value |-> <<TRUE>>]
             /\ active_trade' = active_trade
             /\ db_calls' = Append(db_calls,
                     <<"save_trade", active_trade[1].id, "OPEN">>)
          \/ /\ pc \in {"close_trade:197", "cancel_active_trade:212"}
             /\ pc' # "idle"
             /\ Last(closed_trades).status \in FinalStatuses
             /\ db_calls' = Append(db_calls,
                     <<"save_trade", Last(closed_trades).id,
                       Last(closed_trades).status>>)
          \/ /\ pc \in {"close_trade:198", "cancel_active_trade:213"}
             /\ Last(db_calls) = <<"save_trade", Last(closed_trades).id,
                                   Last(closed_trades).status>>
             /\ db_calls' = Append(db_calls,
                     <<"save_portfolio_state", trade_counter, "">>)]_vars
    /\ [][(Reading \/ RefusedEntry) => db_calls' = db_calls]_vars
    /\ [](pc = "idle" =>
            /\ \A id \in 1..trade_counter :
                  /\ CallsOf("save_trade", id, {"OPEN"}) = 1
                  /\ CallsOf("save_trade", id, FinalStatuses)
                       = Cardinality({i \in DOMAIN closed_trades :
                                        closed_trades[i].id = id})
            /\ Cardinality({i \in DOMAIN db_calls :
                              db_calls[i][1] = "save_portfolio_state"})
                 = Len(closed_trades)
            /\ \A i \in DOMAIN db_calls :
                  (db_calls[i][1] = "save_trade"
                     /\ db_calls[i][3] \in FinalStatuses)
                  <=> (i < Len(db_calls)
                         /\ db_calls[i + 1][1] = "save_portfolio_state"))

\* two lifecycles are over, one resolved and one cancelled, and the reader
\* has called stats since
C23_Witness ==
    /\ pc = "idle"
    /\ ret.op = "stats"
    /\ Len(closed_trades) = 2
    /\ closed_trades[1].status = "WIN"
    /\ closed_trades[2].status = "CANCELLED"
    /\ Len(db_calls) = 6

\* C24 (Store matches memory at rest): whenever close_trade or
\* cancel_active_trade has just returned, the stored portfolio snapshot
\* equals the in-memory capital, initial_capital, pnl_history and
\* trade_counter, and for every trade in closed_trades the stored row with
\* that id has the same fields.  It holds while the process that built the
\* Portfolio runs; it fails for a Portfolio rebuilt by restore(load_state())
\* after a stop inside close_trade or cancel_active_trade: the trade stored
\* by the process that stopped is in closed_trades with no snapshot behind
\* it, and the next trade is given its id and replaces its row (C26).
C24_StoreMatchesMemory ==
    (AtRest /\ ret.op \in {"close_trade", "cancel_active_trade"}) =>
       /\ LoadedSnapshot(World)
            = <<capital, initial_capital, pnl_history, trade_counter>>
       /\ closed_trades # <<>> =>
            /\ db_state # None
            /\ db_state[1].capital = capital
            /\ db_state[1].initial_capital = initial_capital
            /\ json_loads(db_state[1].pnl_history) = pnl_history
            /\ db_state[1].trade_counter = trade_counter
       /\ \A i \in DOMAIN closed_trades :
            /\ closed_trades[i].id \in DOMAIN db_trades
            /\ TradeOfRow(db_trades[closed_trades[i].id]) = closed_trades[i]

\* a step in which the process stops inside close_trade, save_trade
\* committed and save_portfolio_state still to run
StoppedInClose == pc = "close_trade:198" /\ ret'.op = "stop"

\* C25 (Crash window): if the process stops inside close_trade after
\* save_trade(final status) has committed and before save_portfolio_state
\* runs, load_state on restart returns closed_trades that contains the
\* resolved trade while capital and pnl_history are those saved before that
\* resolution, so len(pnl_history) differs from 1 + the number of WIN/LOSS
\* trades; the restarted Portfolio holds exactly that state, unrepaired.
C25_CrashWindow ==
    /\ [][StoppedInClose =>
            LET before == load_state(entered[1])
                after == load_state(World')
                resolved == entered[1].active_trade[1]
            IN  /\ \E i \in DOMAIN after.closed_trades :
                      /\ after.closed_trades[i].id = resolved.id
                      /\ after.closed_trades[i].status \in {"WIN", "LOSS"}
                      /\ after.closed_trades[i].exit_price # None
                /\ resolved.id \notin
                      {before.closed_trades[i].id :
                         i \in DOMAIN before.closed_trades}
                /\ after.capital = before.capital
                /\ after.pnl_history = before.pnl_history
                /\ after.trade_counter = before.trade_counter
                /\ Len(after.pnl_history)
                      # 1 + ResolvedCount(after.closed_trades)]_vars
    /\ [][(Restarting /\ ret'.value = <<"close_trade:198">>) =>
            LET after == load_state(World')
            IN  /\ closed_trades' = after.closed_trades
                /\ capital' = after.capital
                /\ pnl_history' = after.pnl_history
                /\ Len(pnl_history') # 1 + ResolvedCount(closed_trades')]_vars

\* the Portfolio rebuilt after such a stop: a resolved trade and no
\* snapshot for it
C25_Witness ==
    /\ AtRest
    /\ ret = [op |-> "restore", value |-> <<"close_trade:198">>]
    /\ Len(closed_trades) = 1
    /\ closed_trades[1].status = "WIN"
    /\ pnl_history = <<0>>
    /\ capital = INITIAL_CAPITAL

\* C26 (Identifiers are not reused across a restart): for a Portfolio
\* rebuilt with restore(load_state()) after the process stopped at any point,
\* every id assigned by a later consider_entry is greater than the id of
\* every row already in the trades table, so save_trade for a newly opened
\* trade never replaces the row of a different trade.
C26_NoIdReuseAcrossRestart ==
    [][Entering =>
         /\ \A i \in DOMAIN Before.db_trades : active_trade'[1].id > i
         /\ \A i \in DOMAIN Before.db_trades :
               db_trades'[i] = Before.db_trades[i]]_vars

\* what holds in place of C26: the id assigned is one more than the
\* trade_counter of the last stored snapshot, or than the counter in memory
\* when the process has not stopped since
C26_IdFollowsCounter ==
    [][Entering => active_trade'[1].id = Before.trade_counter + 1]_vars

\* C27 (Streak is empty while a position is open): in every state reached
\* by consider_entry, close_trade and cancel_active_trade from a fresh
\* Portfolio an active trade implies the streak {null, 0}; a signal that
\* arrives while a trade is open is refused and leaves the streak as it is,
\* so the streak is empty after a close or cancel, each call raises the
\* count by at most one, and the entry that follows is made by a call that
\* finds at least ENTRY_AFTER_N - 1 signals of its direction counted.
C27_EmptyStreakWhileOpen ==
    /\ []((AtRest /\ active_trade # None) => signal_streak = EmptyStreak)
    /\ [][(Returns("consider_entry") /\ Before.active_trade # None) =>
            /\ ret'.value = <<FALSE>>
            /\ signal_streak' = EmptyStreak
            /\ active_trade' = Before.active_trade]_vars
    /\ [][(ResolvingClose \/ Cancelling) =>
            /\ active_trade' = None
            /\ signal_streak' = EmptyStreak]_vars
    /\ [][signal_streak'.count <= signal_streak.count + 1]_vars
    /\ [][Entering =>
            /\ Before.signal_streak.count >= ENTRY_AFTER_N - 1
            /\ Before.signal_streak.label = active_trade'[1].direction]_vars

\* a trade was cancelled and, signals later, the next one has been entered
C27_Witness ==
    /\ AtRest
    /\ ret = [op |-> "consider_entry", value |-> <<TRUE>>]
    /\ active_trade # None
    /\ signal_streak = EmptyStreak
    /\ Len(closed_trades) = 1
    /\ closed_trades[1].status = "CANCELLED"

\* the ids of a list of trades, in list order
Ids(list) == [i \in DOMAIN list |-> list[i].id]

\* C28 (Resolution order equals id order): in every reachable state the ids
\* in closed_trades are strictly increasing and smaller than the active
\* trade's id (if any), and every id is <= trade_counter; hence load_state's
\* ordering by ascending id reproduces the in-memory resolution order of
\* closed_trades.  Stated here for the states between two calls only, the
\* least the claim says: it holds in them while the process that built the
\* Portfolio runs, and fails in them for a Portfolio rebuilt by
\* restore(load_state()) after a stop inside close_trade or
\* cancel_active_trade, whose closed_trades holds an id above its
\* trade_counter and, a trade later, the same id twice (C26).
C28_ResolutionOrderIsIdOrder ==
    AtRest =>
    /\ \A i, j \in DOMAIN closed_trades :
          i < j => closed_trades[i].id < closed_trades[j].id
    /\ \A i \in DOMAIN closed_trades :
          /\ closed_trades[i].id <= trade_counter
          /\ active_trade # None =>
                closed_trades[i].id < active_trade[1].id
    /\ active_trade # None => active_trade[1].id <= trade_counter
    /\ Ids(load_state(World).closed_trades) = Ids(closed_trades)
    /\ load_state(World).closed_trades = closed_trades

\* C29 (Consistent view for a concurrent reader): a reader that inspects
\* the Portfolio as stats does, at any point interleaved with the driving
\* loop's close_trade or cancel_active_trade, never observes the same trade
\* both as active_trade and as an element of closed_trades, and never
\* observes an active_trade whose status is not OPEN.
C29_ConsistentView ==
    (ret.op = "stats" /\ "raised" \notin DOMAIN ret.value[1]) =>
       LET seen == ret.value[1]
       IN  seen.active_trade # None =>
             /\ seen.active_trade[1].status = "OPEN"
             /\ \A i \in DOMAIN seen.trade_log :
                   seen.trade_log[i].id # seen.active_trade[1].id

\* what holds in place of C29: the reader's view is consistent when it is
\* taken between two calls of the driving loop
C29_ConsistentViewBetweenCalls ==
    pc = "idle" =>
       /\ active_trade # None => active_trade[1].status = "OPEN"
       /\ \A i \in DOMAIN closed_trades :
             active_trade # None => closed_trades[i].id # active_trade[1].id

=============================================================================
